---- MODULE Spec2Model ----
(***************************************************************************)
(* No_Gas_Slaps: the convergence core.                                     *)
(*   - Arena Server (src/modules/ui.js) and Arena Client Session           *)
(*     (src/unnamed/part_001)                                              *)
(*   - GameState / Rate Limiter / Combo Engine / Power-Up Scheduler        *)
(*     (src/client/modules/state.js)                                       *)
(*   - Offline Sync Queue (src/modules/persistence.js)                     *)
(*   - Leaderboard Merge (src/client/modules/leaderboard-api.js)           *)
(* Each component has its own next-state relation and specification; the   *)
(* variables of the other components stay unchanged under it.              *)
(***************************************************************************)
EXTENDS Integers, Sequences, FiniteSets, TLC

(***************************************************************************)
(* Bounds of the model                                                     *)
(***************************************************************************)
\* connections accepted by the arena server over a run
MaxConn == 2
\* messages a client connection may have in flight
MaxInFlight == 3
\* accepted arena slaps over a run
MaxArenaSlaps == 4
\* regeneration ticks over a run
MaxArenaTicks == 3

(***************************************************************************)
(* Generic helpers                                                         *)
(***************************************************************************)
Min(a, b) == IF a < b THEN a ELSE b

Max(a, b) == IF a > b THEN a ELSE b

\* the value a non-numeric operand turns arithmetic into (JavaScript NaN)
NaN == -1

\* what JSON.stringify writes for NaN, as JSON.parse reads it back
Null == -2

\* a clamp that forgets the upper limit
ClampLowerOnly(lo, hi, v) == IF v = NaN THEN NaN ELSE Max(lo, v)

\* Math.max(lo, Math.min(hi, v)): NaN propagates through both
Clamp(lo, hi, v) == IF v = NaN THEN NaN ELSE Max(lo, Min(hi, v))

\* JSON.stringify followed by JSON.parse, for a number
JsonNumber(v) == IF v = NaN THEN Null ELSE v

\* delete f[k]
Without(f, k) == [i \in DOMAIN f \ {k} |-> f[i]]

(***************************************************************************)
(* Arena Server: constants                                                 *)
(***************************************************************************)
FULL_HEALTH == 100

FULL_GAS == 100

SLAP_GAS_COST == 20

SLAP_POINTS == 10

MAX_COMBO == 50

SLAP_RANGE == 60

SLAP_DAMAGE == 25

HIT_POINTS == 50

KILL_BONUS == 200

GAS_RECHARGE == 8

ARENA_MIN == 20

ARENA_MAX_X == 680

ARENA_MAX_Y == 480

NAME_LIMIT == 20

\* ticks of the 1 s loop that make up the 3 s reset delay
RESET_DELAY_TICKS == 3

VARIABLES
    players,      \* server roster: player id -> record
    nextId,       \* next player id
    conn,         \* connection id -> "none" | "open" | "closing" | "closed"
    observed,     \* the connection whose Arena Client Session is followed (0: none)
    inbox,        \* messages sent to the observed connection, not yet handled by its client
    view,         \* the observed client's players object
    viewId,       \* the observed client's playerId (0: none yet)
    resetTimers,  \* pending setTimeout(resetGame, 3000): ticks left, oldest first
    lastSlap,     \* the slap message the last step handled (NoSlap: the step was no slap)
    hitLog,       \* player id -> the slaps that hit it since it was last at full health, and the
                  \* hit/death events broadcast about it since then
    arenaSlaps,   \* accepted slaps so far
    arenaTicks    \* regeneration ticks so far

arenaVars == <<players, nextId, conn, observed, inbox, view, viewId, resetTimers, lastSlap,
               hitLog, arenaSlaps, arenaTicks>>

VARIABLE
    departures    \* connection -> how often its player was removed and playerLeft broadcast

NoDepartures == [c \in 1..MaxConn |-> [removed |-> 0, left |-> 0]]

VARIABLE
    intent        \* the connection of the dead player that last sent a respawn message, or 0

ConnIds == 1..MaxConn

\* spawn positions Math.random() * 600 + 50, Math.random() * 400 + 50 can give
SpawnX == {50, 110}

SpawnY == {50}

\* coordinates a move message may carry; NaN stands for a missing or non-numeric one
MoveX == {NaN}

MoveY == {50}

\* numeric coordinates a move message may carry, outside the arena on either side
NumericMoveX == {-5, 700}

NumericMoveY == {500}

NoTarget == 0

NoSlap == [by |-> 0, target |-> 0]

NoHits == [slaps |-> 0, events |-> <<>>]

EmptyRoster == [i \in {} |-> 0]

NewPlayer(id, x, y) ==
    [id |-> id, x |-> x, y |-> y, health |-> FULL_HEALTH, gas |-> FULL_GAS,
     alive |-> TRUE, score |-> 0, combo |-> 1]

\* JSON.stringify / JSON.parse of one player
JsonPlayer(p) == [p EXCEPT !.x = JsonNumber(p.x), !.y = JsonNumber(p.y)]

\* JSON.stringify / JSON.parse of the roster
JsonRoster(ps) == [i \in DOMAIN ps |-> JsonPlayer(ps[i])]

OpenConns == {c \in ConnIds : conn[c] = "open"}

\* broadcast(data): client.send(msg) for every client whose readyState is OPEN; the
\* model keeps the messages of the observed connection
Broadcast(box, cn, msgs) ==
    IF observed \in ConnIds /\ cn[observed] = "open" THEN box \o msgs ELSE box

\* the most messages one handler broadcasts: playerDied, playerHit, playerUpdate
MaxBurst == 3

\* the server takes a step when what it may broadcast fits in flight
Room == Len(inbox) + MaxBurst <= MaxInFlight

ArenaInit ==
    /\ players = EmptyRoster
    /\ nextId = 1
    /\ conn = [c \in ConnIds |-> "none"]
    /\ inbox = <<>>
    /\ view = EmptyRoster
    /\ viewId = 0
    /\ resetTimers = <<>>
    /\ lastSlap = NoSlap
    /\ hitLog = [i \in {} |-> NoHits]
    /\ arenaSlaps = 0
    /\ arenaTicks = 0

\* the roster late in a long round: player 1 has slapped 48 times without a hit (combo 49,
\* score 480) and its gas has recharged to the full
LongRoundRoster ==
    [i \in {1} |-> [NewPlayer(1, 50, 50) EXCEPT !.combo = MAX_COMBO - 1,
                                                !.score = (MAX_COMBO - 2) * SLAP_POINTS]]

\* the server with nobody connected yet, or late in a long round
ArenaInitLongRound ==
    /\ players \in {EmptyRoster, LongRoundRoster}
    /\ nextId = Cardinality(DOMAIN players) + 1
    /\ conn = [c \in ConnIds |-> IF c \in DOMAIN players THEN "open" ELSE "none"]
    /\ inbox = <<>>
    /\ view = EmptyRoster
    /\ viewId = 0
    /\ resetTimers = <<>>
    /\ lastSlap = NoSlap
    /\ hitLog = [i \in DOMAIN players |-> NoHits]
    /\ arenaSlaps = 0
    /\ arenaTicks = 0

\* the roster two ticks after player 1 has slapped five times without a hit: gas
\* 100 - 5 * 20 + 2 * 8
LowGasRoster ==
    [i \in {1} |-> [NewPlayer(1, 50, 50) EXCEPT !.gas = 2 * GAS_RECHARGE,
                                                !.combo = 6,
                                                !.score = 5 * SLAP_POINTS]]

\* the server with nobody connected yet, or with player 1 out of gas; the client of the
\* observed connection has handled what it was sent
ArenaInitLowGas ==
    /\ players \in {EmptyRoster, LowGasRoster}
    /\ nextId = Cardinality(DOMAIN players) + 1
    /\ conn = [c \in ConnIds |-> IF c \in DOMAIN players THEN "open" ELSE "none"]
    /\ observed \in ConnIds
    /\ inbox = <<>>
    /\ view = IF observed \in DOMAIN players THEN JsonRoster(players) ELSE EmptyRoster
    /\ viewId = IF observed \in DOMAIN players THEN observed ELSE 0
    /\ resetTimers = <<>>
    /\ lastSlap = NoSlap
    /\ hitLog = [i \in DOMAIN players |-> NoHits]
    /\ arenaSlaps = 0
    /\ arenaTicks = 0

\* wss.on('connection'): allocate an id, spawn, send init, broadcast playerJoined
Connect ==
    /\ nextId <= MaxConn
    /\ Room
    /\ \E x \in SpawnX, y \in SpawnY :
         LET id == nextId
             ps == [i \in DOMAIN players \cup {id} |->
                      IF i = id THEN NewPlayer(id, x, y) ELSE players[i]]
             cn == [conn EXCEPT ![id] = "open"]
             box0 == IF id = observed
                       THEN <<[type |-> "init", id |-> id, players |-> JsonRoster(ps)]>>
                       ELSE inbox
         IN /\ players' = ps
            /\ nextId' = nextId + 1
            /\ conn' = cn
            /\ inbox' = Broadcast(box0, cn,
                          <<[type |-> "playerJoined", player |-> JsonPlayer(ps[id])]>>)
            /\ hitLog' = [i \in DOMAIN hitLog \cup {id} |->
                            IF i = id THEN NoHits ELSE hitLog[i]]
            /\ lastSlap' = NoSlap
    /\ UNCHANGED <<observed, view, viewId, resetTimers, arenaSlaps, arenaTicks>>

\* the connection handler's guard: if (!players[playerId]) return
CanSend(c) == c \in OpenConns /\ c \in DOMAIN players

\* data.type === 'move' with data.x = mx and data.y = my
MoveTo(c, mx, my) ==
    /\ CanSend(c)
    /\ Room
    /\ IF ~players[c].alive
         THEN UNCHANGED <<players, inbox>>
         ELSE LET nx == Clamp(ARENA_MIN, ARENA_MAX_X, mx)
                  ny == Clamp(ARENA_MIN, ARENA_MAX_Y, my)
              IN /\ players' = [players EXCEPT ![c].x = nx, ![c].y = ny]
                 /\ inbox' = Broadcast(inbox, conn,
                      <<[type |-> "playerMoved", id |-> c,
                         x |-> JsonNumber(nx), y |-> JsonNumber(ny)]>>)
    /\ lastSlap' = NoSlap
    /\ UNCHANGED <<nextId, conn, observed, view, viewId, resetTimers, hitLog, arenaSlaps, arenaTicks>>

\* a move message as any client may send it
Move(c) == \E mx \in MoveX, my \in MoveY : MoveTo(c, mx, my)

\* a move message with numeric coordinates
MoveNumeric(c) == \E mx \in NumericMoveX, my \in NumericMoveY : MoveTo(c, mx, my)

\* a range test that lets a distance of exactly 60 hit
InSlapRangeInclusive(a, t) ==
    /\ a.x # NaN /\ a.y # NaN /\ t.x # NaN /\ t.y # NaN
    /\ (t.x - a.x) * (t.x - a.x) + (t.y - a.y) * (t.y - a.y) <= SLAP_RANGE * SLAP_RANGE

\* dist < 60 with dist = Math.sqrt(dx * dx + dy * dy); a NaN coordinate makes dist NaN
InSlapRange(a, t) ==
    /\ a.x # NaN /\ a.y # NaN /\ t.x # NaN /\ t.y # NaN
    /\ (t.x - a.x) * (t.x - a.x) + (t.y - a.y) * (t.y - a.y) < SLAP_RANGE * SLAP_RANGE

\* the attacker's part of an accepted slap: gas -= 20, score += 10, combo = min(combo + 1, 50)
\* a slap that costs gas and builds the combo without scoring
SlapCostNoPoints(ps, a) ==
    [ps EXCEPT ![a].gas = @ - SLAP_GAS_COST,
               ![a].combo = Min(@ + 1, MAX_COMBO)]

SlapCost(ps, a) ==
    [ps EXCEPT ![a].gas = @ - SLAP_GAS_COST,
               ![a].score = @ + SLAP_POINTS,
               ![a].combo = Min(@ + 1, MAX_COMBO)]

\* whether the slap of a at targetId t resolves a hit, in the roster after SlapCost
HitResolves(ps, a, t) ==
    /\ t \in DOMAIN ps
    /\ ps[t].alive
    /\ InSlapRange(ps[a], ps[t])

\* the hit: target health -= 25, attacker score += 50 * combo; at health <= 0 the
\* target dies and the attacker gets the kill bonus
HitEffect(ps, a, t) ==
    LET p1 == [ps EXCEPT ![t].health = @ - SLAP_DAMAGE]
        p2 == [p1 EXCEPT ![a].score = @ + HIT_POINTS * p1[a].combo]
    IN IF p2[t].health <= 0
         THEN LET p3 == [p2 EXCEPT ![t].alive = FALSE]
              IN [p3 EXCEPT ![a].score = @ + KILL_BONUS]
         ELSE p2

\* the events of a resolved hit with the hit event ahead of the death event
HitMessagesHitFirst(ps, a, t) ==
    <<[type |-> "playerHit", id |-> t, health |-> ps[t].health, attacker |-> a,
       damage |-> SLAP_DAMAGE]>>
    \o (IF ps[t].health <= 0
          THEN <<[type |-> "playerDied", id |-> t, killerId |-> a]>>
          ELSE <<>>)

\* the hit and death events of a resolved hit, in the order they are broadcast
HitMessages(ps, a, t) ==
    (IF ps[t].health <= 0
       THEN <<[type |-> "playerDied", id |-> t, killerId |-> a]>>
       ELSE <<>>)
    \o <<[type |-> "playerHit", id |-> t, health |-> ps[t].health, attacker |-> a,
          damage |-> SLAP_DAMAGE]>>

UpdateMessage(ps, a) ==
    [type |-> "playerUpdate", id |-> a, gas |-> ps[a].gas, score |-> ps[a].score,
     combo |-> ps[a].combo]

TypesOf(msgs) == [i \in 1..Len(msgs) |-> msgs[i].type]

\* a guard that lets a player without gas slap
SlapRejectedDeadOnly(p) == ~p.alive

\* the slap branch's guard: if (!players[playerId].alive || players[playerId].gas < 20) return
SlapRejected(p) == ~p.alive \/ p.gas < SLAP_GAS_COST

\* data.type === 'slap'
Slap(c) ==
    /\ CanSend(c)
    /\ Room
    /\ \E t \in ConnIds \cup {NoTarget} :
         /\ lastSlap' = [by |-> c, target |-> t]
         /\ IF SlapRejected(players[c])
              THEN UNCHANGED <<players, inbox, hitLog, arenaSlaps>>
              ELSE /\ arenaSlaps < MaxArenaSlaps
                   /\ arenaSlaps' = arenaSlaps + 1
                   /\ LET p1 == SlapCost(players, c)
                          hit == HitResolves(p1, c, t)
                          p2 == IF hit THEN HitEffect(p1, c, t) ELSE p1
                          hm == IF hit THEN HitMessages(p2, c, t) ELSE <<>>
                      IN /\ players' = p2
                         /\ inbox' = Broadcast(inbox, conn, hm \o <<UpdateMessage(p2, c)>>)
                         /\ hitLog' = IF hit
                                        THEN [hitLog EXCEPT ![t].slaps = @ + 1,
                                                            ![t].events = @ \o TypesOf(hm)]
                                        ELSE hitLog
    /\ UNCHANGED <<nextId, conn, observed, view, viewId, resetTimers, arenaTicks>>

AliveCount(ps) == Cardinality({i \in DOMAIN ps : ps[i].alive})

\* the regeneration loop's gas recharge: alive players gain 8 gas, capped at 100
Recharge(ps) ==
    [i \in DOMAIN ps |->
       IF ps[i].alive THEN [ps[i] EXCEPT !.gas = Min(FULL_GAS, @ + GAS_RECHARGE)] ELSE ps[i]]

\* setInterval(..., 1000): recharge, broadcast gasRecharge when somebody is alive, and
\* schedule resetGame when exactly one of several players is alive.  A reset timer set
\* at tick k runs out at about tick k + 3: it fires before that tick or right after it.
Tick ==
    /\ arenaTicks < MaxArenaTicks
    /\ \A i \in 1..Len(resetTimers) : resetTimers[i] > 0
    /\ Room
    /\ LET ps == Recharge(players)
           active == AliveCount(players)
           aged == [i \in 1..Len(resetTimers) |-> resetTimers[i] - 1]
       IN /\ players' = ps
          /\ inbox' = IF active > 0
                        THEN Broadcast(inbox, conn,
                               <<[type |-> "gasRecharge", players |-> JsonRoster(ps)]>>)
                        ELSE inbox
          /\ resetTimers' = IF active = 1 /\ Cardinality(DOMAIN players) > 1
                              THEN Append(aged, RESET_DELAY_TICKS)
                              ELSE aged
    /\ arenaTicks' = arenaTicks + 1
    /\ lastSlap' = NoSlap
    /\ UNCHANGED <<nextId, conn, observed, view, viewId, hitLog, arenaSlaps>>

\* resetGame(), run by the oldest reset timer
\* a reset that leaves the score and the combo of the round
RestoredKeepsScore(p, x, y) ==
    [p EXCEPT !.health = FULL_HEALTH, !.gas = FULL_GAS, !.x = x, !.y = y, !.alive = TRUE]

\* what resetGame makes of one player, at the position drawn for it
Restored(p, x, y) ==
    [p EXCEPT !.health = FULL_HEALTH, !.gas = FULL_GAS, !.x = x, !.y = y,
              !.alive = TRUE, !.score = 0, !.combo = 1]

ResetGame ==
    /\ Len(resetTimers) > 0
    /\ Head(resetTimers) <= 1
    /\ Room
    /\ \E pos \in [DOMAIN players -> SpawnX \X SpawnY] :
         LET ps == [i \in DOMAIN players |-> Restored(players[i], pos[i][1], pos[i][2])]
         IN /\ players' = ps
            /\ inbox' = Broadcast(inbox, conn,
                          <<[type |-> "gameReset", players |-> JsonRoster(ps)]>>)
    /\ resetTimers' = Tail(resetTimers)
    /\ hitLog' = [i \in DOMAIN hitLog |-> NoHits]
    /\ lastSlap' = NoSlap
    /\ UNCHANGED <<nextId, conn, observed, view, viewId, arenaSlaps, arenaTicks>>

\* what is in flight to connection c is dropped with the connection
DropIfObserved(c, box) == IF c = observed THEN <<>> ELSE box

\* ws.on('error'): the socket is already CLOSING when the handler runs; the player is
\* removed and playerLeft broadcast if the player is still in the roster
SocketError(c) ==
    /\ c \in OpenConns
    /\ Room
    /\ LET cn == [conn EXCEPT ![c] = "closing"]
       IN /\ conn' = cn
          /\ IF c \in DOMAIN players
               THEN /\ players' = Without(players, c)
                    /\ inbox' = Broadcast(DropIfObserved(c, inbox), cn,
                                  <<[type |-> "playerLeft", id |-> c]>>)
               ELSE /\ players' = players
                    /\ inbox' = DropIfObserved(c, inbox)
    /\ view' = IF c = observed THEN EmptyRoster ELSE view
    /\ viewId' = IF c = observed THEN 0 ELSE viewId
    /\ hitLog' = Without(hitLog, c)
    /\ lastSlap' = NoSlap
    /\ UNCHANGED <<nextId, observed, resetTimers, arenaSlaps, arenaTicks>>

\* ws.on('close'): delete the player and broadcast playerLeft, unconditionally
SocketClose(c) ==
    /\ conn[c] \in {"open", "closing"}
    /\ Room
    /\ LET cn == [conn EXCEPT ![c] = "closed"]
       IN /\ conn' = cn
          /\ players' = Without(players, c)
          /\ inbox' = Broadcast(DropIfObserved(c, inbox), cn,
                        <<[type |-> "playerLeft", id |-> c]>>)
    /\ view' = IF c = observed THEN EmptyRoster ELSE view
    /\ viewId' = IF c = observed THEN 0 ELSE viewId
    /\ hitLog' = Without(hitLog, c)
    /\ lastSlap' = NoSlap
    /\ UNCHANGED <<nextId, observed, resetTimers, arenaSlaps, arenaTicks>>

\* data.type === 'respawn': the handler has no branch for it
Respawn(c) ==
    /\ CanSend(c)
    /\ UNCHANGED arenaVars

VARIABLE
    episode       \* whether a tick has found one player left since the last reset

\* the regeneration tick, recorded
TickCounted ==
    /\ Tick
    /\ episode' = (episode \/ (AliveCount(players) = 1 /\ Cardinality(DOMAIN players) > 1))

\* resetGame, recorded
ResetCounted ==
    /\ ResetGame
    /\ episode' = FALSE

\* the roster one second into a last-player-standing episode: player 1 has slapped player
\* 2 four times from where both spawned, and the tick that followed has recharged its gas
EpisodeRoster ==
    [i \in {1, 2} |->
        IF i = 1
          THEN [NewPlayer(1, 50, 50) EXCEPT
                  !.gas = FULL_GAS - 4 * SLAP_GAS_COST + GAS_RECHARGE,
                  !.combo = 5,
                  !.score = 4 * SLAP_POINTS + HIT_POINTS * (2 + 3 + 4 + 5) + KILL_BONUS]
          ELSE [NewPlayer(2, 50, 50) EXCEPT !.health = FULL_HEALTH - 4 * SLAP_DAMAGE,
                                            !.alive = FALSE]]

\* the server with nobody connected yet, or one second into a last-player-standing episode
ArenaInitEpisode ==
    /\ players \in {EmptyRoster, EpisodeRoster}
    /\ nextId = Cardinality(DOMAIN players) + 1
    /\ conn = [c \in ConnIds |-> IF c \in DOMAIN players THEN "open" ELSE "none"]
    /\ observed = 0
    /\ inbox = <<>>
    /\ view = EmptyRoster
    /\ viewId = 0
    /\ resetTimers = IF players = EmptyRoster THEN <<>> ELSE <<RESET_DELAY_TICKS>>
    /\ lastSlap = NoSlap
    /\ hitLog = [i \in DOMAIN players |->
                   IF i = 2 THEN [slaps |-> 4,
                                  events |-> <<"playerHit", "playerHit", "playerHit",
                                               "playerDied", "playerHit">>]
                            ELSE NoHits]
    /\ arenaSlaps = 0
    /\ arenaTicks = 0

\* respawnPlayer() of the client of a dead player, and the server's handling of the
\* message
RespawnRecorded(c) ==
    /\ c \in DOMAIN players
    /\ ~players[c].alive
    /\ Respawn(c)
    /\ intent' = c

\* the names an updateProfile message carries: none, and one of 21 characters
ProfileNames == {<<>>, [i \in 1..(NAME_LIMIT + 1) |-> "x"]}

\* data.type === 'updateProfile' with data.name = name
UpdateProfile(c, name) ==
    /\ CanSend(c)
    /\ players' = IF name = <<>>
                    THEN players
                    ELSE [players EXCEPT ![c] =
                            [f \in DOMAIN @ \cup {"name"} |->
                               IF f = "name" THEN SubSeq(name, 1, Min(Len(name), NAME_LIMIT))
                                             ELSE @[f]]]
    /\ lastSlap' = NoSlap
    /\ UNCHANGED <<nextId, conn, observed, inbox, view, viewId, resetTimers, hitLog, arenaSlaps,
                   arenaTicks>>

\* ws.on('error'), with the removal and the broadcast counted
SocketErrorCounted(c) ==
    /\ SocketError(c)
    /\ departures' = IF c \in DOMAIN players
                       THEN [departures EXCEPT ![c].removed = @ + 1, ![c].left = @ + 1]
                       ELSE departures

\* ws.on('close'), with the removal and the broadcast counted
SocketCloseCounted(c) ==
    /\ SocketClose(c)
    /\ departures' = [departures EXCEPT ![c].removed = IF c \in DOMAIN players THEN @ + 1 ELSE @,
                                         ![c].left = @ + 1]

\* Object.assign(target, source)
Assign(target, source) ==
    [i \in DOMAIN target \cup DOMAIN source |->
       IF i \in DOMAIN source THEN source[i] ELSE target[i]]

\* handleMessage: the client's players object after message m
HandleMessage(v, m) ==
    CASE m.type = "init" -> m.players
      [] m.type = "playerJoined" -> Assign(v, [i \in {m.player.id} |-> m.player])
      [] m.type = "playerLeft" -> Without(v, m.id)
      [] m.type = "playerMoved" ->
           IF m.id \in DOMAIN v THEN [v EXCEPT ![m.id].x = m.x, ![m.id].y = m.y] ELSE v
      [] m.type = "playerHit" ->
           IF m.id \in DOMAIN v THEN [v EXCEPT ![m.id].health = m.health] ELSE v
      [] m.type = "playerDied" ->
           IF m.id \in DOMAIN v THEN [v EXCEPT ![m.id].alive = FALSE] ELSE v
      [] m.type = "playerUpdate" ->
           IF m.id \in DOMAIN v
             THEN [v EXCEPT ![m.id].gas = m.gas, ![m.id].score = m.score,
                            ![m.id].combo = m.combo]
             ELSE v
      [] m.type = "gasRecharge" -> Assign(v, m.players)
      [] m.type = "gameReset" -> m.players
      [] OTHER -> v

\* ws.onmessage: the observed client handles its oldest undelivered message
Deliver ==
    /\ observed \in ConnIds
    /\ conn[observed] = "open"
    /\ inbox # <<>>
    /\ LET m == Head(inbox)
       IN /\ view' = HandleMessage(view, m)
          /\ viewId' = IF m.type = "init" THEN m.id ELSE viewId
    /\ inbox' = Tail(inbox)
    /\ lastSlap' = NoSlap
    /\ UNCHANGED <<players, nextId, conn, observed, resetTimers, hitLog, arenaSlaps,
                   arenaTicks>>

(***************************************************************************)
(* GameState, Rate Limiter / Combo Engine, Power-Up Scheduler              *)
(* (src/client/modules/state.js)                                           *)
(***************************************************************************)
MAX_TAPS_PER_SECOND == 4

MIN_INTERVAL == 1000 \div MAX_TAPS_PER_SECOND

COMBO_TIMEOUT == 1200

MAX_SCORE_INCREMENT == 1000

\* the rate limiter's window, in ms
TAP_WINDOW == 1000

DAY_MS == 24 * 60 * 60 * 1000

BASE_REWARD == 100

STREAK_STEP == 20

MAX_STREAK == 7

COOLDOWN_TICK == 1000

\* clock advances over a run of the whole game
MaxClockSteps == 2
\* clock advances over a run of taps alone
MaxTapClockSteps == 5
\* over a run: days that pass, page loads, resets, debug score grants, power-up
\* activations and cooldown ticks, taken together
MaxGameEvents == 3

VARIABLES
    now,            \* Date.now()
    gameState,      \* the gameState object
    tapsWindow,     \* timestamps of the taps in the rate limiter's window
    powerUpsState,  \* power-up id -> [unlocked, active, cooldown, duration]
    pendingDeactivations,  \* power-up id -> pending setTimeout(deactivatePowerUp) timers
    savedPowerUps,  \* what localStorage holds under POWERUPS_KEY
    acceptedTaps,       \* the last taps of this session that slap() awarded points for
    unlockEvents,   \* power-up id -> powerUpUnlocked events dispatched so far
    gameBudget      \* what the run has used of its bounds

gameVars == <<now, gameState, tapsWindow, powerUpsState, pendingDeactivations, savedPowerUps, acceptedTaps, unlockEvents, gameBudget>>

VARIABLE
    activation    \* the last activatePowerUp call: its id and what it threw, or "ok"

NoActivation == [id |-> "none", outcome |-> "none"]

VARIABLE
    slapCall      \* the last slap() call: its time and whether it threw

NoSlapCall == [time |-> 0, threw |-> FALSE]

PowerUpIds == {"doublePoints", "rapidFire", "shield", "magnet", "boost"}

unlockThreshold(id) ==
    CASE id = "doublePoints" -> 500
      [] id = "rapidFire" -> 1000
      [] id = "shield" -> 2000
      [] id = "magnet" -> 5000
      [] id = "boost" -> 10000

getPowerUpDuration(id) ==
    CASE id = "doublePoints" -> 30000
      [] id = "rapidFire" -> 15000
      [] id = "shield" -> 60000
      [] id = "magnet" -> 20000
      [] id = "boost" -> 10000

getPowerUpCooldown(id) ==
    CASE id = "doublePoints" -> 120000
      [] id = "rapidFire" -> 90000
      [] id = "shield" -> 180000
      [] id = "magnet" -> 150000
      [] id = "boost" -> 300000

\* the clock at page load: Date.now() is many days past the epoch
StartTime == 8 * DAY_MS

\* what the clock advances by between two events
ClockSteps == {MIN_INTERVAL, COMBO_TIMEOUT}

\* the module's initial gameState, which is also what resetGameState restores
DefaultGame ==
    [score |-> 0, combo |-> 1, lastSlapAt |-> 0, lastComboTick |-> 0, totalSlaps |-> 0,
     dailyClaimed |-> FALSE, lastDailyClaim |-> 0, highestCombo |-> 0, totalTaps |-> 0]

DefaultPowerUps ==
    [id \in PowerUpIds |-> [unlocked |-> FALSE, active |-> FALSE, cooldown |-> 0, duration |-> 0]]

NothingSaved == [present |-> FALSE]

Saved(data) == [present |-> TRUE, data |-> data]

\* values the score and combo fields of the persisted state may hold instead of the saved
\* ones: the fields validateGameState checks are not trusted to be what was saved
PersistedEdits == {[score |-> -5, combo |-> 0], [score |-> 9999, combo |-> 75]}

GameInit ==
    /\ now = StartTime
    /\ gameState = DefaultGame
    /\ tapsWindow = <<>>
    /\ powerUpsState = DefaultPowerUps
    /\ pendingDeactivations = [id \in PowerUpIds |-> 0]
    /\ savedPowerUps = NothingSaved
    /\ acceptedTaps = <<>>
    /\ unlockEvents = [id \in PowerUpIds |-> 0]
    /\ gameBudget = [clock |-> 0, events |-> 0]

\* the power-ups two minutes after a page load that found doublePoints active: no timer
\* is pending for it and its cooldown has run down
LatePowerUps ==
    [DefaultPowerUps EXCEPT !["doublePoints"] =
        [unlocked |-> TRUE, active |-> TRUE, cooldown |-> 0,
         duration |-> getPowerUpDuration("doublePoints")]]

\* the session at page load, or two minutes after a page load that found doublePoints
\* active (as saved by activatePowerUp)
GameInitLate ==
    /\ now = StartTime
    /\ tapsWindow = <<>>
    /\ pendingDeactivations = [id \in PowerUpIds |-> 0]
    /\ acceptedTaps = <<>>
    /\ gameBudget = [clock |-> 0, events |-> 0]
    /\ \/ /\ gameState = DefaultGame
          /\ powerUpsState = DefaultPowerUps
          /\ savedPowerUps = NothingSaved
          /\ unlockEvents = [id \in PowerUpIds |-> 0]
       \/ /\ gameState = [DefaultGame EXCEPT !.score = unlockThreshold("doublePoints")]
          /\ powerUpsState = LatePowerUps
          /\ savedPowerUps = Saved([LatePowerUps EXCEPT
                                      !["doublePoints"].cooldown = getPowerUpCooldown("doublePoints")])
          /\ unlockEvents = [id \in PowerUpIds |-> IF id = "doublePoints" THEN 1 ELSE 0]

\* the power-ups that applyPowerUpEffects looks at
ScoringPowerUps == {"doublePoints", "rapidFire", "boost"}

\* every power-up unlocked, those of the set on activated and not yet run out
PowerUpsActive(on) ==
    [id \in PowerUpIds |->
        [unlocked |-> TRUE, active |-> id \in on,
         cooldown |-> IF id \in on THEN getPowerUpCooldown(id) ELSE 0,
         duration |-> IF id \in on THEN getPowerUpDuration(id) ELSE 0]]

\* a session deep into play: the score has passed every unlock threshold, the combo is
\* anywhere in its range, the last tap was 250 ms ago, and any of the power-ups that
\* change the points are active
GameInitScoring ==
    /\ now = StartTime
    /\ \E c \in 1..MAX_COMBO :
         gameState = [DefaultGame EXCEPT !.score = unlockThreshold("boost"),
                                         !.combo = c,
                                         !.lastSlapAt = StartTime - MIN_INTERVAL,
                                         !.lastComboTick = StartTime - MIN_INTERVAL,
                                         !.totalSlaps = unlockThreshold("boost"),
                                         !.totalTaps = unlockThreshold("boost"),
                                         !.highestCombo = MAX_COMBO]
    /\ tapsWindow = <<StartTime - MIN_INTERVAL>>
    /\ acceptedTaps = <<StartTime - MIN_INTERVAL>>
    /\ \E on \in SUBSET ScoringPowerUps :
         /\ powerUpsState = PowerUpsActive(on)
         /\ pendingDeactivations = [id \in PowerUpIds |-> IF id \in on THEN 1 ELSE 0]
         /\ savedPowerUps = Saved(PowerUpsActive(on))
    /\ unlockEvents = [id \in PowerUpIds |-> 1]
    /\ gameBudget = [clock |-> 0, events |-> 0]

\* tapsWindow.filter(time => now - time < 1000)
FilterWindow(w, t) == SelectSeq(w, LAMBDA time : t - time < TAP_WINDOW)

\* a rate test that accepts a tap when the window already holds four
isValidTapRateOffByOne(w) == Len(w) <= MAX_TAPS_PER_SECOND

\* isValidTapRate, after the window was cleaned
isValidTapRate(w) == Len(w) < MAX_TAPS_PER_SECOND

\* a combo rule that still continues the combo at a gap of exactly 1200 ms
calculateComboInclusive(gs, t) ==
    IF t - gs.lastComboTick <= COMBO_TIMEOUT THEN Min(gs.combo + 1, MAX_COMBO) ELSE 1

\* calculateCombo
calculateCombo(gs, t) ==
    IF t - gs.lastComboTick < COMBO_TIMEOUT THEN Min(gs.combo + 1, MAX_COMBO) ELSE 1

\* power-up effects that round the points up
applyPowerUpEffectsRoundedUp(pu, basePoints) ==
    LET p1 == IF pu["doublePoints"].active THEN 2 * basePoints ELSE basePoints
        p2 == IF pu["rapidFire"].active THEN 3 * p1 ELSE 2 * p1
        p3 == IF pu["boost"].active THEN 3 * p2 ELSE p2
    IN (p3 + 1) \div 2

\* applyPowerUpEffects: x2, x1.5, x3 in this order, then Math.floor; the running value
\* is kept doubled so that x1.5 stays an integer
applyPowerUpEffects(pu, basePoints) ==
    LET p1 == IF pu["doublePoints"].active THEN 2 * basePoints ELSE basePoints
        p2 == IF pu["rapidFire"].active THEN 3 * p1 ELSE 2 * p1
        p3 == IF pu["boost"].active THEN 3 * p2 ELSE p2
    IN p3 \div 2

\* checkPowerUpUnlocks: the ids that unlock now
NewUnlocks(pu, score) ==
    {id \in PowerUpIds : ~pu[id].unlocked /\ score >= unlockThreshold(id)}

Unlock(pu, ids) == [id \in PowerUpIds |-> IF id \in ids THEN [pu[id] EXCEPT !.unlocked = TRUE] ELSE pu[id]]

CountUnlocks(ev, ids) == [id \in PowerUpIds |-> IF id \in ids THEN ev[id] + 1 ELSE ev[id]]

\* the last n elements of s
LastN(s, n) == IF Len(s) <= n THEN s ELSE SubSeq(s, Len(s) - n + 1, Len(s))

\* how a slap() call at time t ends: the rate limit throws, the minimum interval
\* returns silently, an oversized increment throws, anything else awards points
SlapOutcome(w, gs, pu, t) ==
    IF ~isValidTapRate(w) THEN "rateError"
    ELSE IF t - gs.lastSlapAt < MIN_INTERVAL THEN "ignored"
    ELSE IF applyPowerUpEffects(pu, calculateCombo(gs, t)) > MAX_SCORE_INCREMENT
      THEN "incrementError"
    ELSE "accepted"

\* slap()
SlapTap ==
    LET w == FilterWindow(tapsWindow, now)
        outcome == SlapOutcome(w, gameState, powerUpsState, now)
        newCombo == calculateCombo(gameState, now)
        points == applyPowerUpEffects(powerUpsState, newCombo)
        counted == [gameState EXCEPT !.totalSlaps = @ + 1, !.totalTaps = @ + 1]
        gs == [counted EXCEPT !.combo = newCombo, !.score = @ + points,
                              !.lastSlapAt = now, !.lastComboTick = now,
                              !.highestCombo = Max(@, newCombo)]
        ids == NewUnlocks(powerUpsState, gs.score)
        pu == Unlock(powerUpsState, ids)
    IN /\ CASE outcome \in {"rateError", "ignored"} ->
                 /\ tapsWindow' = w
                 /\ UNCHANGED <<gameState, powerUpsState, savedPowerUps, acceptedTaps,
                                unlockEvents>>
            [] outcome = "incrementError" ->
                 /\ tapsWindow' = Append(w, now)
                 /\ gameState' = counted
                 /\ UNCHANGED <<powerUpsState, savedPowerUps, acceptedTaps, unlockEvents>>
            [] outcome = "accepted" ->
                 /\ tapsWindow' = Append(w, now)
                 /\ gameState' = gs
                 /\ powerUpsState' = pu
                 /\ unlockEvents' = CountUnlocks(unlockEvents, ids)
                 /\ savedPowerUps' = IF ids # {} THEN Saved(pu) ELSE savedPowerUps
                 /\ acceptedTaps' = LastN(Append(acceptedTaps, now), MAX_TAPS_PER_SECOND + 1)
       /\ UNCHANGED <<now, pendingDeactivations, gameBudget>>

\* slap(), with how it ended recorded
SlapRecorded ==
    /\ SlapTap
    /\ slapCall' = [time |-> now,
                    threw |-> SlapOutcome(FilterWindow(tapsWindow, now), gameState,
                                          powerUpsState, now) \in {"rateError", "incrementError"}]

\* time passes
AdvanceClock(limit) ==
    /\ gameBudget.clock < limit
    /\ \E d \in ClockSteps : now' = now + d
    /\ gameBudget' = [gameBudget EXCEPT !.clock = @ + 1]
    /\ UNCHANGED <<gameState, tapsWindow, powerUpsState, pendingDeactivations, savedPowerUps, acceptedTaps, unlockEvents>>

\* a day passes
AdvanceDay ==
    /\ gameBudget.events < MaxGameEvents
    /\ now' = now + DAY_MS
    /\ gameBudget' = [gameBudget EXCEPT !.events = @ + 1]
    /\ UNCHANGED <<gameState, tapsWindow, powerUpsState, pendingDeactivations, savedPowerUps, acceptedTaps, unlockEvents>>

\* a daily claim that takes points away
DailyRewardDecreasing(t, last) ==
    BASE_REWARD - Min((t - last) \div DAY_MS, MAX_STREAK) * STREAK_STEP

\* claimDailyReward: the reward for a claim at time t when the last claim was at last
DailyReward(t, last) ==
    BASE_REWARD + Min((t - last) \div DAY_MS, MAX_STREAK) * STREAK_STEP

\* claimDailyReward()
ClaimDailyReward ==
    LET daysSinceLastClaim == (now - gameState.lastDailyClaim) \div DAY_MS
        gs == [gameState EXCEPT !.score = @ + DailyReward(now, gameState.lastDailyClaim),
                                !.dailyClaimed = TRUE, !.lastDailyClaim = now]
    IN /\ IF gameState.dailyClaimed /\ daysSinceLastClaim < 1
            THEN UNCHANGED gameState
            ELSE gameState' = gs
       /\ UNCHANGED <<now, tapsWindow, powerUpsState, pendingDeactivations, savedPowerUps,
                      acceptedTaps, unlockEvents, gameBudget>>

\* the calendar day of a timestamp
DayOf(t) == t \div DAY_MS

\* startBackgroundTasks: the one-minute check that clears dailyClaimed on a new day
MidnightCheck ==
    /\ gameState.dailyClaimed
    /\ DayOf(now) # DayOf(gameState.lastDailyClaim)
    /\ gameState' = [gameState EXCEPT !.dailyClaimed = FALSE]
    /\ UNCHANGED <<now, tapsWindow, powerUpsState, pendingDeactivations, savedPowerUps, acceptedTaps, unlockEvents, gameBudget>>

\* an activation that does not look at the active flag
ActivationOutcomeActiveUnchecked(pu, id) ==
    IF id \notin DOMAIN pu THEN "Invalid power-up ID"
    ELSE IF ~pu[id].unlocked THEN "Power-up not unlocked"
    ELSE IF pu[id].cooldown > 0 THEN "Power-up on cooldown"
    ELSE "ok"

\* activatePowerUp(id): the reason it throws, or "ok"
ActivationOutcome(pu, id) ==
    IF id \notin DOMAIN pu THEN "Invalid power-up ID"
    ELSE IF ~pu[id].unlocked THEN "Power-up not unlocked"
    ELSE IF pu[id].cooldown > 0 THEN "Power-up on cooldown"
    ELSE IF pu[id].active THEN "Power-up already active"
    ELSE "ok"

\* activatePowerUp(id)
ActivatePowerUp(id) ==
    LET outcome == ActivationOutcome(powerUpsState, id)
        pu == [powerUpsState EXCEPT ![id].active = TRUE,
                                    ![id].duration = getPowerUpDuration(id),
                                    ![id].cooldown = getPowerUpCooldown(id)]
    IN /\ IF outcome = "ok"
            THEN /\ gameBudget.events < MaxGameEvents
                 /\ powerUpsState' = pu
                 /\ pendingDeactivations' = [pendingDeactivations EXCEPT ![id] = @ + 1]
                 /\ savedPowerUps' = Saved(pu)
                 /\ gameBudget' = [gameBudget EXCEPT !.events = @ + 1]
            ELSE UNCHANGED <<powerUpsState, pendingDeactivations, savedPowerUps, gameBudget>>
       /\ UNCHANGED <<now, gameState, tapsWindow, acceptedTaps, unlockEvents>>

\* the ids activatePowerUp is called with: the power-ups and an id that is none
ActivationIds == PowerUpIds \cup {"turbo"}

\* activatePowerUp(id), with what it threw recorded
ActivateRecorded(id) ==
    /\ ActivatePowerUp(id)
    /\ activation' = [id |-> id, outcome |-> ActivationOutcome(powerUpsState, id)]

\* deactivatePowerUp(id), run by the timer that activatePowerUp set
DeactivatePowerUp(id) ==
    LET pu == [powerUpsState EXCEPT ![id].active = FALSE, ![id].duration = 0]
    IN /\ pendingDeactivations[id] > 0
       /\ pendingDeactivations' = [pendingDeactivations EXCEPT ![id] = @ - 1]
       /\ IF powerUpsState[id].active
            THEN powerUpsState' = pu /\ savedPowerUps' = Saved(pu)
            ELSE UNCHANGED <<powerUpsState, savedPowerUps>>
       /\ UNCHANGED <<now, gameState, tapsWindow, acceptedTaps, unlockEvents,
                      gameBudget>>

\* startBackgroundTasks: the one-second tick that runs the cooldowns down
CooldownTick ==
    /\ gameBudget.events < MaxGameEvents
    /\ \E id \in PowerUpIds : powerUpsState[id].cooldown > 0
    /\ powerUpsState' = [id \in PowerUpIds |->
           [powerUpsState[id] EXCEPT !.cooldown = Max(0, @ - COOLDOWN_TICK)]]
    /\ gameBudget' = [gameBudget EXCEPT !.events = @ + 1]
    /\ UNCHANGED <<now, gameState, tapsWindow, pendingDeactivations, savedPowerUps,
                   acceptedTaps, unlockEvents>>

\* resetGameState()
ResetGameState ==
    /\ gameBudget.events < MaxGameEvents
    /\ gameState # DefaultGame
    /\ gameState' = DefaultGame
    /\ gameBudget' = [gameBudget EXCEPT !.events = @ + 1]
    /\ UNCHANGED <<now, tapsWindow, powerUpsState, pendingDeactivations, savedPowerUps,
                   acceptedTaps, unlockEvents>>

\* the amounts the debug handle adds
DebugScores == {499, 9999}

\* addDebugScore(amount), which the localhost debug handle exposes like resetGameState
AddDebugScore(amount) ==
    /\ gameBudget.events < MaxGameEvents
    /\ gameState' = [gameState EXCEPT !.score = @ + amount]
    /\ gameBudget' = [gameBudget EXCEPT !.events = @ + 1]
    /\ UNCHANGED <<now, tapsWindow, powerUpsState, pendingDeactivations, savedPowerUps,
                   acceptedTaps, unlockEvents>>

\* validateGameState, for the fields the model keeps
validateGameState(gs) ==
    [gs EXCEPT !.score = IF @ < 0 THEN 0 ELSE @,
               !.combo = IF @ < 1 THEN 1 ELSE @,
               !.totalSlaps = IF @ < 0 THEN 0 ELSE @]

\* the states loadState(STATE_KEY) may return: the current state, which saveGameState wrote
\* as the page was hidden; nothing, which leaves the initial state; or an edited record
PersistedGames ==
    {gameState, DefaultGame}
      \cup {[gameState EXCEPT !.score = e.score, !.combo = e.combo] : e \in PersistedEdits}

\* a page load: the module's initial state, then initState() and initPowerUps()
Restart ==
    /\ gameBudget.events < MaxGameEvents
    /\ \E loaded \in PersistedGames :
         LET gs == validateGameState(loaded)
             base == IF savedPowerUps.present THEN savedPowerUps.data ELSE DefaultPowerUps
             ids == NewUnlocks(base, gs.score)
             pu == Unlock(base, ids)
         IN /\ gameState' = gs
            /\ powerUpsState' = pu
            /\ unlockEvents' = CountUnlocks(unlockEvents, ids)
            /\ savedPowerUps' = IF ids # {} THEN Saved(pu) ELSE savedPowerUps
    /\ tapsWindow' = <<>>
    /\ pendingDeactivations' = [id \in PowerUpIds |-> 0]
    /\ acceptedTaps' = <<>>
    /\ gameBudget' = [gameBudget EXCEPT !.events = @ + 1]
    /\ UNCHANGED now

(***************************************************************************)
(* Offline Sync Queue (src/modules/persistence.js)                         *)
(***************************************************************************)
SYNC_RETRY_DELAY == 30000

MAX_RETRY_ATTEMPTS == 5

MAX_QUEUE_SIZE == 1000

SYNC_BATCH_SIZE == 5

ENQUEUE_DRAIN_DELAY == 100

ONLINE_DRAIN_DELAY == 1000

\* initPersistence runs twice per page load: the module's own timer and the application
INIT_CALLS == 2

\* items enqueued over a run
MaxSyncItems == 2
\* clock advances over a run
MaxSyncClockSteps == 2
\* page loads, cleanup() calls and connectivity changes over a run, taken together
MaxSyncEvents == 1

VARIABLES
    syncObjects,      \* the item objects alive in memory: reference -> item
    syncQueue,        \* the syncQueue array: references, in order
    storedQueue,      \* what localStorage holds under SYNC_QUEUE_KEY
    onlineStatus,
    syncInProgress,
    retryTimeout,     \* the due time of the timer scheduleNextSync set, if it is pending
    drainTimers,      \* due times of the pending setTimeout(processSyncQueue, ...)
    drains,           \* the executions of processSyncQueue awaiting a batch, oldest first
    initCalls,        \* the initPersistence calls of this page load
    syncClock,        \* Date.now()
    syncLog,          \* item id -> what happened to the item
    syncBudget        \* what the run has used of its bounds

syncVars == <<syncObjects, syncQueue, storedQueue, onlineStatus, syncInProgress, retryTimeout,
              drainTimers, drains, initCalls, syncClock, syncLog, syncBudget>>

\* what callers pass to enqueueSync; maxAttempts 0 stands for an absent one
SyncInputs == {[priority |-> "normal", maxAttempts |-> 0], [priority |-> "high", maxAttempts |-> 2]}

SyncClockSteps == {ENQUEUE_DRAIN_DELAY, SYNC_RETRY_DELAY}

\* items enqueued in a run that is about the queue's order
MaxOrderItems == 3

\* what callers pass to enqueueSync in such a run: every priority
SyncOrderInputs ==
    {[priority |-> "high", maxAttempts |-> 1], [priority |-> "normal", maxAttempts |-> 0],
     [priority |-> "low", maxAttempts |-> 1]}

EmptyFunction == [x \in {} |-> 0]

SyncInit ==
    /\ syncObjects = EmptyFunction
    /\ syncQueue = <<>>
    /\ storedQueue = NothingSaved
    /\ onlineStatus \in BOOLEAN
    /\ syncInProgress = FALSE
    /\ retryTimeout = <<>>
    /\ drainTimers = <<>>
    /\ drains = <<>>
    /\ initCalls = 0
    /\ syncClock = 0
    /\ syncLog = EmptyFunction
    /\ syncBudget = [items |-> 0, clock |-> 0, events |-> 0]

\* the items of a sequence of references
ItemsOf(objs, q) == [i \in 1..Len(q) |-> objs[q[i]]]

\* the ids of the queued items
QueueIds == {syncObjects[syncQueue[i]].id : i \in 1..Len(syncQueue)}

priorityOrder(p) ==
    CASE p = "high" -> 3
      [] p = "normal" -> 2
      [] p = "low" -> 1
      [] OTHER -> 2

\* a comparator that looks at the timestamps alone
SyncCompareTimestampOnly(a, b) == a.timestamp - b.timestamp

\* the comparator of enqueueSync's sort: negative when a goes before b
SyncCompare(a, b) ==
    LET priorityDiff == priorityOrder(b.priority) - priorityOrder(a.priority)
    IN IF priorityDiff # 0 THEN priorityDiff ELSE a.timestamp - b.timestamp

\* the position a stable sort gives reference r among the sorted references q
InsertSorted(objs, q, r) ==
    LET before == {i \in 1..Len(q) : SyncCompare(objs[r], objs[q[i]]) < 0}
        at == IF before = {} THEN Len(q) + 1 ELSE CHOOSE i \in before : \A j \in before : i <= j
    IN SubSeq(q, 1, at - 1) \o <<r>> \o SubSeq(q, at, Len(q))

RECURSIVE SortQueue(_, _)
\* Array.prototype.sort with SyncCompare, which is stable
SortQueue(objs, q) ==
    IF q = <<>> THEN <<>>
    ELSE InsertSorted(objs, SortQueue(objs, SubSeq(q, 1, Len(q) - 1)), q[Len(q)])

\* the state processSyncQueue and its callers work on
SyncState ==
    [objs |-> syncObjects, queue |-> syncQueue, stored |-> storedQueue,
     inProgress |-> syncInProgress, retry |-> retryTimeout, drains |-> drains,
     log |-> syncLog]

\* saveSyncQueue
SaveSyncQueue(S) == [S EXCEPT !.stored = Saved(ItemsOf(S.objs, S.queue))]

\* dequeueSync(item): by id
DequeueSync(S, item) ==
    LET found == {i \in 1..Len(S.queue) : S.objs[S.queue[i]].id = item.id}
        index == CHOOSE i \in found : \A j \in found : i <= j
    IN IF found = {} THEN S
       ELSE SaveSyncQueue([S EXCEPT
              !.queue = SubSeq(S.queue, 1, index - 1) \o SubSeq(S.queue, index + 1, Len(S.queue)),
              !.log = [@ EXCEPT ![item.id].left = TRUE]])

\* the items processSyncQueue picks: attempts left and the retry delay served
ItemsToSync(S) ==
    SelectSeq(S.queue, LAMBDA r :
        /\ S.objs[r].attempts < S.objs[r].maxAttempts
        /\ syncClock - S.objs[r].timestamp > S.objs[r].attempts * SYNC_RETRY_DELAY)

\* the batch a drain has in flight
BatchOf(d) == SubSeq(d.items, d.at, Min(d.at + SYNC_BATCH_SIZE - 1, Len(d.items)))

\* processSyncItem is called for every item of the batch
Submit(S, batch) ==
    LET ids == {S.objs[batch[i]].id : i \in 1..Len(batch)}
    IN [S EXCEPT !.log = [id \in DOMAIN @ |->
           IF id \in ids
             THEN [@[id] EXCEPT !.late = @ \/ S.log[id].left]
             ELSE @[id]]]

\* a finally block that clears the flag and schedules nothing
FinishDrainUnscheduled(S) == [S EXCEPT !.inProgress = FALSE]

\* the finally block of processSyncQueue, with scheduleNextSync
FinishDrain(S) ==
    [S EXCEPT !.inProgress = FALSE,
              !.retry = IF Len(S.queue) > 0 THEN <<syncClock + SYNC_RETRY_DELAY>> ELSE @]

\* processSyncQueue(), up to its first await
ProcessSyncQueue(S) ==
    IF S.inProgress \/ ~onlineStatus \/ Len(S.queue) = 0 THEN S
    ELSE LET itemsToSync == ItemsToSync(S)
             d == [items |-> itemsToSync, at |-> 1]
         IN IF itemsToSync = <<>>
              THEN FinishDrain(S)
              ELSE Submit([S EXCEPT !.inProgress = TRUE, !.drains = Append(@, d)], BatchOf(d))

\* processSyncBatch, for one settled result
SettleOne(S, r, ok) ==
    IF ok
      THEN DequeueSync(S, S.objs[r])
      ELSE LET failed == [S EXCEPT !.objs[r].attempts = @ + 1,
                                   !.log[S.objs[r].id].failed = @ + 1]
           IN IF failed.objs[r].attempts >= failed.objs[r].maxAttempts
                THEN DequeueSync(failed, failed.objs[r])
                ELSE failed

RECURSIVE SettleBatch(_, _, _)
\* processSyncBatch: results.forEach, then saveSyncQueue
SettleBatch(S, batch, oks) ==
    IF batch = <<>> THEN SaveSyncQueue(S)
    ELSE SettleBatch(SettleOne(S, Head(batch), Head(oks)), Tail(batch), Tail(oks))

\* the objects something still refers to
Referenced(S) ==
    {S.queue[i] : i \in 1..Len(S.queue)}
      \cup UNION {{S.drains[n].items[i] : i \in S.drains[n].at..Len(S.drains[n].items)} :
                     n \in 1..Len(S.drains)}

\* the variables take the values of S; objects nothing refers to are forgotten
SyncBecomes(S) ==
    /\ syncObjects' = [r \in Referenced(S) |-> S.objs[r]]
    /\ syncQueue' = S.queue
    /\ storedQueue' = S.stored
    /\ syncInProgress' = S.inProgress
    /\ retryTimeout' = S.retry
    /\ drains' = S.drains
    /\ syncLog' = S.log

\* the sequence s without its element i
RemoveAt(s, i) == SubSeq(s, 1, i - 1) \o SubSeq(s, i + 1, Len(s))

\* items enqueued in a run that is about the queue's size
MaxCapItems == 4

\* the size cap in such a run, in place of the 1000 of the code
SmallQueueCap == 2

\* enqueueSync(item) with the caller's priority and maxAttempts, in a run of at most limit
\* items, the queue capped at cap items
EnqueueSyncCapped(limit, cap, priority, maxAttempts) ==
    LET id == syncBudget.items + 1
        r == <<id, 0>>
        sanitizedItem == [id |-> id, attempts |-> 0,
                          maxAttempts |-> IF maxAttempts = 0 THEN MAX_RETRY_ATTEMPTS
                                                             ELSE maxAttempts,
                          priority |-> priority, timestamp |-> syncClock]
        objs == [x \in DOMAIN syncObjects \cup {r} |->
                    IF x = r THEN sanitizedItem ELSE syncObjects[x]]
        sorted == SortQueue(objs, Append(syncQueue, r))
        S == [SyncState EXCEPT
                !.objs = objs,
                !.queue = SubSeq(sorted, 1, Min(Len(sorted), cap)),
                !.log = [x \in DOMAIN syncLog \cup {id} |->
                           IF x = id
                             THEN [failed |-> 0, left |-> FALSE,
                                   late |-> FALSE, maxAttempts |-> sanitizedItem.maxAttempts]
                             ELSE syncLog[x]]]
    IN /\ syncBudget.items < limit
       /\ SyncBecomes(SaveSyncQueue(S))
       /\ drainTimers' = IF onlineStatus /\ ~syncInProgress
                           THEN Append(drainTimers, syncClock + ENQUEUE_DRAIN_DELAY)
                           ELSE drainTimers
       /\ syncBudget' = [syncBudget EXCEPT !.items = @ + 1]
       /\ UNCHANGED <<onlineStatus, initCalls, syncClock>>

\* enqueueSync(item) with the caller's priority and maxAttempts, in a run of at most limit
\* items
EnqueueSyncUpTo(limit, priority, maxAttempts) ==
    EnqueueSyncCapped(limit, MAX_QUEUE_SIZE, priority, maxAttempts)

\* enqueueSync(item) with the caller's priority and maxAttempts
EnqueueSync(priority, maxAttempts) == EnqueueSyncUpTo(MaxSyncItems, priority, maxAttempts)

\* dequeueSync(item) called for a queued item
DequeueCall(id) ==
    /\ \E i \in 1..Len(syncQueue) : syncObjects[syncQueue[i]].id = id
    /\ SyncBecomes(DequeueSync(SyncState, [id |-> id]))
    /\ UNCHANGED <<onlineStatus, drainTimers, initCalls, syncClock, syncBudget>>

\* a setTimeout(processSyncQueue, ...) timer fires
DrainTimerFires(i) ==
    /\ i \in 1..Len(drainTimers)
    /\ drainTimers[i] <= syncClock
    /\ drainTimers' = RemoveAt(drainTimers, i)
    /\ SyncBecomes(ProcessSyncQueue(SyncState))
    /\ UNCHANGED <<onlineStatus, initCalls, syncClock, syncBudget>>

\* the timer of scheduleNextSync fires
RetryTimerFires ==
    /\ retryTimeout # <<>>
    /\ retryTimeout[1] <= syncClock
    /\ LET fired == [SyncState EXCEPT !.retry = <<>>]
       IN SyncBecomes(IF onlineStatus THEN ProcessSyncQueue(fired) ELSE fired)
    /\ UNCHANGED <<onlineStatus, drainTimers, initCalls, syncClock, syncBudget>>

\* one batch of a drain settles with the results oks; the drain goes on to its next
\* batch or ends
BatchSettles(n, oks) ==
    LET d == drains[n]
        settled == SettleBatch(SyncState, BatchOf(d), oks)
        next == [d EXCEPT !.at = @ + SYNC_BATCH_SIZE]
    IN SyncBecomes(
         IF next.at <= Len(d.items)
           THEN Submit([settled EXCEPT !.drains = [@ EXCEPT ![n] = next]], BatchOf(next))
           ELSE FinishDrain([settled EXCEPT !.drains = RemoveAt(@, n)]))

\* the results of the submissions of a batch come in
SubmissionsSettle ==
    /\ \E n \in 1..Len(drains) :
         \E oks \in [1..Len(BatchOf(drains[n])) -> BOOLEAN] : BatchSettles(n, oks)
    /\ UNCHANGED <<onlineStatus, drainTimers, initCalls, syncClock, syncBudget>>

\* a reference no object has yet, for a new object that holds item id
FreshRef(objs, id) ==
    <<id, CHOOSE k \in 0..Cardinality(DOMAIN objs) :
            /\ <<id, k>> \notin DOMAIN objs
            /\ \A j \in 0..(k - 1) : <<id, j>> \in DOMAIN objs>>

\* loadSyncQueue: the stored items become new objects
LoadSyncQueue(S) ==
    LET stored == S.stored.data
        refs == [i \in 1..Len(stored) |-> FreshRef(S.objs, stored[i].id)]
        new == {refs[i] : i \in 1..Len(stored)}
    IN IF ~S.stored.present THEN S
       ELSE [S EXCEPT
              !.queue = refs,
              !.objs = [r \in DOMAIN S.objs \cup new |->
                          IF r \in new
                            THEN stored[CHOOSE i \in 1..Len(stored) : refs[i] = r]
                            ELSE S.objs[r]]]

\* initPersistence()
InitPersistence ==
    /\ initCalls < INIT_CALLS
    /\ LET loaded == LoadSyncQueue(SyncState)
       IN SyncBecomes(IF onlineStatus /\ Len(loaded.queue) > 0
                        THEN ProcessSyncQueue(loaded) ELSE loaded)
    /\ initCalls' = initCalls + 1
    /\ UNCHANGED <<onlineStatus, drainTimers, syncClock, syncBudget>>

\* the 'online' event, handled once per handler that setupNetworkHandlers registered, in a
\* run of at most limit events
OnlineUpTo(limit) ==
    /\ initCalls > 0
    /\ ~onlineStatus
    /\ syncBudget.events < limit
    /\ syncBudget' = [syncBudget EXCEPT !.events = @ + 1]
    /\ onlineStatus' = TRUE
    /\ drainTimers' = IF Len(syncQueue) > 0
                        THEN drainTimers \o [i \in 1..initCalls |-> syncClock + ONLINE_DRAIN_DELAY]
                        ELSE drainTimers
    /\ UNCHANGED <<syncObjects, syncQueue, storedQueue, syncInProgress, retryTimeout, drains,
                   initCalls, syncClock, syncLog>>

\* the 'online' event
Online == OnlineUpTo(MaxSyncEvents)

\* the 'offline' event, in a run of at most limit events
OfflineUpTo(limit) ==
    /\ initCalls > 0
    /\ onlineStatus
    /\ syncBudget.events < limit
    /\ syncBudget' = [syncBudget EXCEPT !.events = @ + 1]
    /\ onlineStatus' = FALSE
    /\ retryTimeout' = <<>>
    /\ UNCHANGED <<syncObjects, syncQueue, storedQueue, syncInProgress, drainTimers, drains,
                   initCalls, syncClock, syncLog>>

\* the 'offline' event
Offline == OfflineUpTo(MaxSyncEvents)

\* cleanup()
SyncCleanup ==
    /\ syncBudget.events < MaxSyncEvents
    /\ syncInProgress' = FALSE
    /\ retryTimeout' = <<>>
    /\ syncBudget' = [syncBudget EXCEPT !.events = @ + 1]
    /\ UNCHANGED <<syncObjects, syncQueue, storedQueue, onlineStatus, drainTimers, drains,
                   initCalls, syncClock, syncLog>>

\* the page is loaded anew: the module starts over with what localStorage holds
PageLoad ==
    /\ syncBudget.events < MaxSyncEvents
    /\ syncObjects' = EmptyFunction
    /\ syncQueue' = <<>>
    /\ syncInProgress' = FALSE
    /\ retryTimeout' = <<>>
    /\ drainTimers' = <<>>
    /\ drains' = <<>>
    /\ initCalls' = 0
    /\ syncBudget' = [syncBudget EXCEPT !.events = @ + 1]
    /\ UNCHANGED <<storedQueue, onlineStatus, syncClock, syncLog>>

\* time passes
SyncAdvanceClock ==
    /\ syncBudget.clock < MaxSyncClockSteps
    /\ \E d \in SyncClockSteps : syncClock' = syncClock + d
    /\ syncBudget' = [syncBudget EXCEPT !.clock = @ + 1]
    /\ UNCHANGED <<syncObjects, syncQueue, storedQueue, onlineStatus, syncInProgress,
                   retryTimeout, drainTimers, drains, initCalls, syncLog>>

\* what callers pass to enqueueSync in a run that goes on for ever
SyncLiveInputs == {[priority |-> "high", maxAttempts |-> 2]}

\* items enqueued over a run that goes on for ever
MaxLiveItems == 1

\* connectivity changes over a run that goes on for ever
MaxLiveEvents == 2

\* the age from which an item has served every retry delay it can be asked for
RetryHorizon == MAX_RETRY_ATTEMPTS * SYNC_RETRY_DELAY

\* an item d milliseconds later, Date.now() taken as the origin of time: what the code reads
\* of a timestamp is Date.now() - item.timestamp > item.attempts * SYNC_RETRY_DELAY, which
\* is the same for every age from RetryHorizon on
Aged(item, d) == [item EXCEPT !.timestamp = Max(@ - d, syncClock - RetryHorizon)]

\* the due times of timers d milliseconds later
Nearer(timers, d) ==
    IF timers = <<>> THEN <<>> ELSE [i \in 1..Len(timers) |-> Max(timers[i] - d, syncClock)]

\* d milliseconds pass in a run that goes on for ever: Date.now() stays the origin, the
\* timestamps and the due times move towards the past
SyncTimePasses(d) ==
    /\ d = SYNC_RETRY_DELAY \/ syncBudget.clock < MaxSyncClockSteps
    /\ syncBudget' = IF d = SYNC_RETRY_DELAY THEN syncBudget
                                             ELSE [syncBudget EXCEPT !.clock = @ + 1]
    /\ syncObjects' = [r \in DOMAIN syncObjects |-> Aged(syncObjects[r], d)]
    /\ storedQueue' = IF storedQueue.present
                        THEN Saved([i \in 1..Len(storedQueue.data) |->
                                      Aged(storedQueue.data[i], d)])
                        ELSE storedQueue
    /\ retryTimeout' = Nearer(retryTimeout, d)
    /\ drainTimers' = Nearer(drainTimers, d)
    /\ UNCHANGED <<syncQueue, onlineStatus, syncInProgress, drains, initCalls, syncClock,
                   syncLog>>

(***************************************************************************)
(* Leaderboard Merge (src/client/modules/leaderboard-api.js)               *)
(***************************************************************************)
MAX_LEADERBOARD_SIZE == 100

\* entries of a leaderboard handed to a merge
MaxBoardLen == 2

VARIABLES
    boardA,      \* a leaderboard
    boardB,      \* another leaderboard
    boardCap,    \* the maximum leaderboard size in force
    merges,      \* the results of merging them, once computed
    rawEntry,    \* a value handed to validateLeaderboardEntry
    validation   \* what validateLeaderboardEntry returned for it, once called

mergeVars == <<boardA, boardB, boardCap, merges, rawEntry, validation>>

BoardIds == {"p1", "p2", "p3"}

\* the score and timestamp of an entry: four pairs with distinct scores and timestamps,
\* and one pair that ties with another on the score
BoardStamps ==
    {[score |-> 10, timestamp |-> 1], [score |-> 20, timestamp |-> 2],
     [score |-> 30, timestamp |-> 3], [score |-> 40, timestamp |-> 4],
     [score |-> 20, timestamp |-> 5]}

BoardEntries ==
    {[id |-> id, score |-> st.score, timestamp |-> st.timestamp] :
        id \in BoardIds, st \in BoardStamps}

\* the maximum sizes the merge is run under: one the bounded boards can exceed, and the
\* program's
BoardCaps == {MaxBoardLen, MAX_LEADERBOARD_SIZE}

\* the LeaderboardEntry collections: at most one entry per id, sorted descending by
\* score, capped
IsLeaderboard(b, cap) ==
    /\ Len(b) <= cap
    /\ \A i, j \in 1..Len(b) : i < j => b[i].id # b[j].id /\ b[i].score >= b[j].score

Leaderboards(cap) ==
    UNION {{b \in [1..n -> BoardEntries] : IsLeaderboard(b, cap)} : n \in 0..MaxBoardLen}

NoMerges == [done |-> FALSE]

\* JavaScript values: undefined, null, NaN, a string (its characters), a number (twice its
\* value, so that halves are integers)
JsUndefined == [kind |-> "undefined"]

JsNull == [kind |-> "null"]

JsNaN == [kind |-> "NaN"]

JsString(chars) == [kind |-> "string", chars |-> chars]

JsNumber(twice) == [kind |-> "number", twice |-> twice]

NotValidated == [done |-> FALSE]

\* no entry under validation
EntryIdle ==
    /\ rawEntry = JsNull
    /\ validation = NotValidated

\* no merge under way
MergeIdle ==
    /\ boardA = <<>>
    /\ boardB = <<>>
    /\ boardCap = MAX_LEADERBOARD_SIZE
    /\ merges = NoMerges
    /\ EntryIdle

\* two leaderboards to merge
MergeInit ==
    /\ boardCap \in BoardCaps
    /\ boardA \in Leaderboards(boardCap)
    /\ boardB \in Leaderboards(boardCap)
    /\ merges = NoMerges
    /\ EntryIdle

\* Map.set on the map's values in insertion order: an existing key keeps its place
MapSet(m, entry) ==
    IF \E i \in 1..Len(m) : m[i].id = entry.id
      THEN [i \in 1..Len(m) |-> IF m[i].id = entry.id THEN entry ELSE m[i]]
      ELSE Append(m, entry)

\* a merge in which secondary always wins
SecondaryReplacesAlways(existing, entry) == TRUE

\* whether an entry of secondary replaces the existing entry of its id
SecondaryReplaces(existing, entry) ==
    \/ entry.score > existing.score
    \/ entry.score = existing.score /\ entry.timestamp > existing.timestamp

RECURSIVE AddPrimary(_, _)
\* primary.forEach(entry => merged.set(entry.id, entry))
AddPrimary(m, primary) ==
    IF primary = <<>> THEN m ELSE AddPrimary(MapSet(m, Head(primary)), Tail(primary))

RECURSIVE AddSecondary(_, _)
\* secondary.forEach: set when the id is absent or the entry replaces the existing one
AddSecondary(m, secondary) ==
    IF secondary = <<>> THEN m
    ELSE LET entry == Head(secondary)
             found == {i \in 1..Len(m) : m[i].id = entry.id}
             existing == m[CHOOSE i \in found : TRUE]
         IN AddSecondary(
              IF found = {} \/ SecondaryReplaces(existing, entry) THEN MapSet(m, entry) ELSE m,
              Tail(secondary))

\* where a stable sort by descending score puts entry among the sorted entries
InsertByScore(sorted, entry) ==
    LET lower == {i \in 1..Len(sorted) : sorted[i].score < entry.score}
        at == IF lower = {} THEN Len(sorted) + 1 ELSE CHOOSE i \in lower : \A j \in lower : i <= j
    IN SubSeq(sorted, 1, at - 1) \o <<entry>> \o SubSeq(sorted, at, Len(sorted))

RECURSIVE SortByScore(_)
\* sort((a, b) => b.score - a.score), which is stable
SortByScore(entries) ==
    IF entries = <<>> THEN <<>>
    ELSE InsertByScore(SortByScore(SubSeq(entries, 1, Len(entries) - 1)), entries[Len(entries)])

\* mergeLeaderboards(primary, secondary) under a maximum size
MergeUnder(primary, secondary, cap) ==
    LET sorted == SortByScore(AddSecondary(AddPrimary(<<>>, primary), secondary))
    IN SubSeq(sorted, 1, Min(Len(sorted), cap))

\* mergeLeaderboards(primary, secondary)
mergeLeaderboards(primary, secondary) == MergeUnder(primary, secondary, MAX_LEADERBOARD_SIZE)

\* the two leaderboards are merged with themselves and with each other, both ways round
MergeBoards ==
    /\ ~merges.done
    /\ merges' = [done |-> TRUE,
                  aa |-> MergeUnder(boardA, boardA, boardCap),
                  ab |-> MergeUnder(boardA, boardB, boardCap),
                  ba |-> MergeUnder(boardB, boardA, boardCap)]
    /\ UNCHANGED <<boardA, boardB, boardCap, rawEntry, validation>>

(***************************************************************************)
(* Leaderboard entry validation (src/client/modules/security.js)           *)
(***************************************************************************)
MAX_ENTRY_SCORE == 999999999

ENTRY_ID_LIMIT == 50

ENTRY_NAME_LIMIT == 30

\* characters of the strings handed in
MaxEntryChars == 2

\* the characters of the strings handed in: a space, a letter, and two that sanitizeInput
\* encodes. No string over them matches a pattern of SUSPICIOUS_PATTERNS once encoded
EntryChars == {" ", "a", "<", "&"}

EntryStrings == UNION {[1..n -> EntryChars] : n \in 0..MaxEntryChars}

\* the scores handed in, as numbers: -100, -0.5, 0, 0.5, 1000, 999999999, 999999999.5 and
\* 1000000000
EntryScores ==
    {JsNumber(2 * (-100)), JsNumber(-1), JsNumber(0), JsNumber(1), JsNumber(2 * 1000),
     JsNumber(2 * MAX_ENTRY_SCORE), JsNumber(2 * MAX_ENTRY_SCORE + 1),
     JsNumber(2 * (MAX_ENTRY_SCORE + 1))}

\* what callers hand to validateLeaderboardEntry: null, or an object whose id, name and
\* score are absent or of any of these values
RawEntries ==
    {JsNull}
      \cup {[kind |-> "object", id |-> id, name |-> name, score |-> score] :
               id \in {JsUndefined, JsString(<<>>), JsString(<<"a">>), JsString(<<" ">>)},
               name \in {JsUndefined} \cup {JsString(s) : s \in EntryStrings},
               score \in EntryScores \cup {JsUndefined, JsNaN, JsString(<<"a">>)}}

\* an entry to validate
EntryInit ==
    /\ rawEntry \in RawEntries
    /\ validation = NotValidated

\* the HTML entity a character is replaced by
EntityOf(c) ==
    CASE c = "&" -> <<"&", "a", "m", "p", ";">>
      [] c = "<" -> <<"&", "l", "t", ";">>
      [] OTHER -> <<c>>

RECURSIVE EncodeEntities(_)
EncodeEntities(s) == IF s = <<>> THEN <<>> ELSE EntityOf(Head(s)) \o EncodeEntities(Tail(s))

RECURSIVE TrimLeft(_)
TrimLeft(s) == IF s # <<>> /\ Head(s) = " " THEN TrimLeft(Tail(s)) ELSE s

RECURSIVE TrimRight(_)
TrimRight(s) ==
    IF s # <<>> /\ s[Len(s)] = " " THEN TrimRight(SubSeq(s, 1, Len(s) - 1)) ELSE s

RECURSIVE CollapseSpaces(_)
\* replace(/\s+/g, ' ')
CollapseSpaces(s) ==
    IF Len(s) < 2 THEN s
    ELSE IF s[1] = " " /\ s[2] = " " THEN CollapseSpaces(Tail(s))
    ELSE <<Head(s)>> \o CollapseSpaces(Tail(s))

\* sanitizeInput on a string of at most MAX_INPUT_LENGTH characters: entity encoding,
\* trim, whitespace runs collapsed
sanitizeInput(s) == CollapseSpaces(TrimRight(TrimLeft(EncodeEntities(s))))

\* s.slice(0, n)
SliceTo(s, n) == SubSeq(s, 1, Min(Len(s), n))

\* !value for the values handed in
Falsy(v) ==
    \/ v.kind \in {"undefined", "null", "NaN"}
    \/ v.kind = "string" /\ v.chars = <<>>
    \/ v.kind = "number" /\ v.twice = 0

\* Math.max(0, Math.floor(score)) for a value whose typeof is 'number'
FlooredScore(v) == IF v.kind = "NaN" THEN JsNaN ELSE JsNumber(2 * Max(0, v.twice \div 2))

\* sanitizedEntry.score > 999999999, which is false for NaN
TooHigh(v) == v.kind = "number" /\ v.twice > 2 * MAX_ENTRY_SCORE

Rejected == [done |-> TRUE, accepted |-> FALSE]

\* validateLeaderboardEntry(entry); the timestamp of the result is left out
validateLeaderboardEntry(entry) ==
    IF entry.kind # "object" THEN Rejected
    ELSE IF Falsy(entry.id) \/ Falsy(entry.name) \/ entry.score.kind \notin {"number", "NaN"}
      THEN Rejected
    ELSE LET sanitizedEntry ==
                 [id |-> SliceTo(sanitizeInput(entry.id.chars), ENTRY_ID_LIMIT),
                  name |-> SliceTo(sanitizeInput(entry.name.chars), ENTRY_NAME_LIMIT),
                  score |-> FlooredScore(entry.score)]
         IN IF Len(sanitizedEntry.id) = 0 \/ Len(sanitizedEntry.name) = 0 THEN Rejected
            ELSE IF TooHigh(sanitizedEntry.score) THEN Rejected
            ELSE [done |-> TRUE, accepted |-> TRUE, entry |-> sanitizedEntry]

\* validateLeaderboardEntry is called with the entry
ValidateEntry ==
    /\ ~validation.done
    /\ validation' = validateLeaderboardEntry(rawEntry)
    /\ UNCHANGED <<boardA, boardB, boardCap, merges, rawEntry>>

(***************************************************************************)
(* Leaderboard (src/client/modules/leaderboard-api.js)                     *)
(***************************************************************************)
\* calls of the leaderboard's operations in one run
MaxBoardOps == 4

VARIABLES
    leaderboard,        \* the module's leaderboard array
    cacheStore,         \* what storage holds under the leaderboard cache key
    localStore,         \* what storage holds under the local leaderboard key
    lastCacheSet,       \* whether lastCacheTime holds the time of a cache (not 0)
    lbSyncInProgress,   \* the module's in-flight flag
    refreshes,          \* executions of refreshLeaderboard awaiting the server
    syncTimer,          \* whether the timer of scheduleSync is pending
    lbClock,            \* Date.now() of the next update, in updates
    lbBudget            \* calls of the operations so far

boardVars == <<leaderboard, cacheStore, localStore, lastCacheSet, lbSyncInProgress,
               refreshes, syncTimer, lbClock, lbBudget>>

\* the players whose scores this browser reports
LbUsers == {"p1", "p2"}

\* the scores the game reports
LbScores == {20, 30}

BoardEntry(id, score, timestamp) == [id |-> id, score |-> score, timestamp |-> timestamp]

\* arrays storage may hold under either key without this code having written them: a
\* leaderboard, one with two entries of one id, an unsorted one longer than the smaller
\* cap, and one with an entry whose score is negative
StoredBoards ==
    {<<BoardEntry("p2", 40, 4), BoardEntry("p1", 10, 1)>>,
     <<BoardEntry("p2", 40, 4), BoardEntry("p2", 30, 3)>>,
     <<BoardEntry("p1", 10, 1), BoardEntry("p3", 30, 3), BoardEntry("p2", 20, 2)>>,
     <<BoardEntry("p3", -7, 2), BoardEntry("p1", 10, 1)>>}

StoredValues == {NothingSaved} \cup {Saved(b) : b \in StoredBoards}

\* the module as loaded, before initLeaderboard
BoardModuleInit ==
    /\ leaderboard = <<>>
    /\ lastCacheSet = FALSE
    /\ lbSyncInProgress = FALSE
    /\ refreshes = 0
    /\ syncTimer = FALSE
    /\ lbClock = 6
    /\ lbBudget = 0

\* the module as loaded in a browser whose storage holds nothing
BoardInit ==
    /\ BoardModuleInit
    /\ cacheStore = NothingSaved
    /\ localStore = NothingSaved

\* the module as loaded in a browser whose storage holds arrays of an earlier session
BoardInitStored ==
    /\ BoardModuleInit
    /\ cacheStore \in StoredValues
    /\ localStore \in StoredValues

\* validateLeaderboard under a maximum size; the ids are numeric Telegram ids, which
\* sanitizeInput leaves as they are
ValidateUnder(data, cap) ==
    LET kept == SelectSeq(data, LAMBDA entry : entry.score >= 0)
        mapped == [i \in 1..Len(kept) |->
                     BoardEntry(kept[i].id, Max(0, kept[i].score),
                                IF kept[i].timestamp = 0 THEN lbClock ELSE kept[i].timestamp)]
        sorted == SortByScore(mapped)
    IN SubSeq(sorted, 1, Min(Len(sorted), cap))

\* validateLeaderboard(data)
validateLeaderboard(data) == ValidateUnder(data, MAX_LEADERBOARD_SIZE)

\* initLeaderboard(); stale: whether more than CACHE_DURATION has passed since
\* lastCacheTime
InitLeaderboard(stale) ==
    /\ lbBudget < MaxBoardOps
    /\ lbBudget' = lbBudget + 1
    /\ LET fromCache == IF cacheStore.present THEN cacheStore.data ELSE leaderboard
           cacheTimeSet == cacheStore.present \/ lastCacheSet
           withLocal == IF localStore.present /\ (Len(fromCache) = 0 \/ ~cacheTimeSet \/ stale)
                          THEN MergeUnder(fromCache, localStore.data, boardCap)
                          ELSE fromCache
       IN /\ leaderboard' = ValidateUnder(withLocal, boardCap)
          /\ lastCacheSet' = cacheTimeSet
    /\ syncTimer' = (onlineStatus \/ syncTimer)
    /\ UNCHANGED <<cacheStore, localStore, lbSyncInProgress, refreshes, lbClock>>

\* the leaderboard after updateLeaderboard's filter, push, sort and slice
WithEntry(board, playerEntry, cap) ==
    LET others == SelectSeq(board, LAMBDA entry : entry.id # playerEntry.id)
        sorted == SortByScore(Append(others, playerEntry))
    IN SubSeq(sorted, 1, Min(Len(sorted), cap))

\* updateLeaderboard(score) for the user id; inside: isInsideTelegram()
UpdateLeaderboard(id, score, inside) ==
    /\ lbBudget < MaxBoardOps
    /\ lbBudget' = lbBudget + 1
    /\ leaderboard' = WithEntry(leaderboard, BoardEntry(id, score, lbClock), boardCap)
    /\ localStore' = Saved(leaderboard')
    /\ lbClock' = lbClock + 1
    /\ IF inside THEN EnqueueSync("normal", 0) ELSE UNCHANGED syncVars
    /\ UNCHANGED <<cacheStore, lastCacheSet, lbSyncInProgress, refreshes, syncTimer>>

\* refreshLeaderboard() up to its await of the server: a call made while the flag is set
\* returns at once
RefreshStarts ==
    /\ IF lbSyncInProgress
         THEN UNCHANGED <<lbSyncInProgress, refreshes>>
         ELSE lbSyncInProgress' = TRUE /\ refreshes' = refreshes + 1

\* refreshLeaderboard() called by the application
RefreshLeaderboard ==
    /\ lbBudget < MaxBoardOps
    /\ lbBudget' = lbBudget + 1
    /\ RefreshStarts
    /\ UNCHANGED <<leaderboard, cacheStore, localStore, lastCacheSet, syncTimer, lbClock>>

\* what fetchLeaderboardFromServer resolves to
ServerBoard == <<>>

\* refreshLeaderboard() from the server's answer on: merge, updateCache,
\* saveLocalLeaderboard, and the flag is cleared
RefreshCompletes ==
    /\ refreshes > 0
    /\ refreshes' = refreshes - 1
    /\ leaderboard' = MergeUnder(ValidateUnder(ServerBoard, boardCap), leaderboard, boardCap)
    /\ cacheStore' = Saved(leaderboard')
    /\ lastCacheSet' = TRUE
    /\ localStore' = Saved(leaderboard')
    /\ lbSyncInProgress' = FALSE
    /\ UNCHANGED <<syncTimer, lbClock, lbBudget>>

\* the timer of scheduleSync fires
SyncTimerFires ==
    /\ syncTimer
    /\ syncTimer' = FALSE
    /\ IF onlineStatus /\ ~lbSyncInProgress
         THEN RefreshStarts
         ELSE UNCHANGED <<lbSyncInProgress, refreshes>>
    /\ UNCHANGED <<leaderboard, cacheStore, localStore, lastCacheSet, lbClock, lbBudget>>

\* the leaderboard module's listener of the 'online' event: scheduleSync()
BoardOnline ==
    /\ lbBudget < MaxBoardOps
    /\ lbBudget' = lbBudget + 1
    /\ syncTimer' = TRUE
    /\ UNCHANGED <<leaderboard, cacheStore, localStore, lastCacheSet, lbSyncInProgress,
                   refreshes, lbClock>>

\* the leaderboard module's listener of the 'offline' event
BoardOffline ==
    /\ lbBudget < MaxBoardOps
    /\ lbBudget' = lbBudget + 1
    /\ syncTimer' = FALSE
    /\ UNCHANGED <<leaderboard, cacheStore, localStore, lastCacheSet, lbSyncInProgress,
                   refreshes, lbClock>>

\* the leaderboard module's cleanup()
BoardCleanup ==
    /\ lbBudget < MaxBoardOps
    /\ lbBudget' = lbBudget + 1
    /\ syncTimer' = FALSE
    /\ lbSyncInProgress' = FALSE
    /\ UNCHANGED <<leaderboard, cacheStore, localStore, lastCacheSet, refreshes, lbClock>>

(***************************************************************************)
(* Specifications                                                          *)
(***************************************************************************)
\* what the properties need recorded about the run
auditVars == <<departures, activation, intent, slapCall, episode>>

AuditInit ==
    /\ departures = NoDepartures
    /\ activation = NoActivation
    /\ intent = 0
    /\ slapCall = NoSlapCall
    /\ episode = FALSE

vars == <<arenaVars, auditVars, gameVars, syncVars, mergeVars, boardVars>>

\* every component in its initial state, no client's view followed
Init ==
    /\ ArenaInit
    /\ GameInit
    /\ AuditInit
    /\ SyncInit
    /\ MergeIdle
    /\ BoardInit
    /\ observed = 0

\* every component in its initial state, the view of one connection followed
InitObserved ==
    /\ ArenaInit
    /\ GameInit
    /\ AuditInit
    /\ SyncInit
    /\ MergeIdle
    /\ BoardInit
    /\ observed \in ConnIds

\* every component in its initial state, two leaderboards to merge
InitBoards ==
    /\ ArenaInit
    /\ GameInit
    /\ AuditInit
    /\ SyncInit
    /\ MergeInit
    /\ BoardInit
    /\ observed = 0

\* the arena server late in a long round or empty, the other components initial
InitLongRound ==
    /\ ArenaInitLongRound
    /\ GameInit
    /\ AuditInit
    /\ SyncInit
    /\ onlineStatus
    /\ MergeIdle
    /\ BoardInit
    /\ observed = 0

\* every component in its initial state, the browser online
InitOnline ==
    /\ ArenaInit
    /\ GameInit
    /\ AuditInit
    /\ SyncInit
    /\ onlineStatus
    /\ MergeIdle
    /\ BoardInit
    /\ observed = 0

\* the leaderboard module in a browser with empty storage, under either maximum size
InitLeaderboardEmpty ==
    /\ ArenaInit
    /\ GameInit
    /\ AuditInit
    /\ SyncInit
    /\ boardA = <<>>
    /\ boardB = <<>>
    /\ boardCap \in BoardCaps
    /\ merges = NoMerges
    /\ EntryIdle
    /\ BoardInit
    /\ observed = 0

\* the leaderboard module in a browser whose storage holds arrays of an earlier session
InitLeaderboardStored ==
    /\ ArenaInit
    /\ GameInit
    /\ AuditInit
    /\ SyncInit
    /\ boardA = <<>>
    /\ boardB = <<>>
    /\ boardCap \in BoardCaps
    /\ merges = NoMerges
    /\ EntryIdle
    /\ BoardInitStored
    /\ observed = 0

\* the power-ups at page load or late in a session
InitPowerUpsLate ==
    /\ ArenaInit
    /\ GameInitLate
    /\ AuditInit
    /\ SyncInit
    /\ onlineStatus
    /\ MergeIdle
    /\ BoardInit
    /\ observed = 0

\* the arena server empty or with a player out of gas, one client's view followed
InitLowGas ==
    /\ ArenaInitLowGas
    /\ GameInit
    /\ AuditInit
    /\ SyncInit
    /\ onlineStatus
    /\ MergeIdle
    /\ BoardInit

\* the client deep into play, any combo and any scoring power-ups active
InitScoring ==
    /\ ArenaInit
    /\ GameInitScoring
    /\ AuditInit
    /\ SyncInit
    /\ onlineStatus
    /\ MergeIdle
    /\ BoardInit
    /\ observed = 0

\* an entry handed to validateLeaderboardEntry
InitEntry ==
    /\ ArenaInit
    /\ GameInit
    /\ AuditInit
    /\ SyncInit
    /\ onlineStatus
    /\ boardA = <<>>
    /\ boardB = <<>>
    /\ boardCap = MAX_LEADERBOARD_SIZE
    /\ merges = NoMerges
    /\ EntryInit
    /\ BoardInit
    /\ observed = 0

EntryNext == ValidateEntry /\ UNCHANGED <<auditVars, arenaVars, gameVars, syncVars, boardVars>>

\* the arena server empty or one second into a last-player-standing episode
InitEpisode ==
    /\ ArenaInitEpisode
    /\ GameInit
    /\ departures = NoDepartures
    /\ activation = NoActivation
    /\ intent = 0
    /\ slapCall = NoSlapCall
    /\ episode = (resetTimers # <<>>)
    /\ SyncInit
    /\ onlineStatus
    /\ MergeIdle
    /\ BoardInit

ArenaNext ==
    \/ Connect /\ UNCHANGED <<auditVars, gameVars, syncVars, mergeVars, boardVars>>
    \/ \E c \in ConnIds : Move(c) /\ UNCHANGED <<auditVars, gameVars, syncVars, mergeVars, boardVars>>
    \/ \E c \in ConnIds : Slap(c) /\ UNCHANGED <<auditVars, gameVars, syncVars, mergeVars, boardVars>>
    \/ Tick /\ UNCHANGED <<auditVars, gameVars, syncVars, mergeVars, boardVars>>
    \/ ResetGame /\ UNCHANGED <<auditVars, gameVars, syncVars, mergeVars, boardVars>>
    \/ \E c \in ConnIds : SocketError(c) /\ UNCHANGED <<auditVars, gameVars, syncVars, mergeVars, boardVars>>
    \/ \E c \in ConnIds : SocketClose(c) /\ UNCHANGED <<auditVars, gameVars, syncVars, mergeVars, boardVars>>

ArenaMovesNext ==
    \/ Connect /\ UNCHANGED <<auditVars, gameVars, syncVars, mergeVars, boardVars>>
    \/ \E c \in ConnIds : MoveNumeric(c) /\ UNCHANGED <<auditVars, gameVars, syncVars, mergeVars, boardVars>>
    \/ \E c \in ConnIds : Slap(c) /\ UNCHANGED <<auditVars, gameVars, syncVars, mergeVars, boardVars>>
    \/ Tick /\ UNCHANGED <<auditVars, gameVars, syncVars, mergeVars, boardVars>>
    \/ ResetGame /\ UNCHANGED <<auditVars, gameVars, syncVars, mergeVars, boardVars>>

ArenaViewNext ==
    \/ ArenaNext
    \/ Deliver /\ UNCHANGED <<auditVars, gameVars, syncVars, mergeVars, boardVars>>

TapsNext ==
    \/ SlapTap /\ UNCHANGED <<auditVars, arenaVars, syncVars, mergeVars, boardVars>>
    \/ AdvanceClock(MaxTapClockSteps) /\ UNCHANGED <<auditVars, arenaVars, syncVars, mergeVars, boardVars>>
    \/ ResetGameState /\ UNCHANGED <<auditVars, arenaVars, syncVars, mergeVars, boardVars>>

TapsRecordedNext ==
    \/ SlapRecorded /\ UNCHANGED <<episode, departures, activation, intent, arenaVars, syncVars, mergeVars, boardVars>>
    \/ AdvanceClock(MaxTapClockSteps) /\ UNCHANGED <<auditVars, arenaVars, syncVars, mergeVars, boardVars>>
    \/ ResetGameState /\ UNCHANGED <<auditVars, arenaVars, syncVars, mergeVars, boardVars>>

GameNext ==
    \/ SlapTap /\ UNCHANGED <<auditVars, arenaVars, syncVars, mergeVars, boardVars>>
    \/ AdvanceClock(MaxClockSteps) /\ UNCHANGED <<auditVars, arenaVars, syncVars, mergeVars, boardVars>>
    \/ AdvanceDay /\ UNCHANGED <<auditVars, arenaVars, syncVars, mergeVars, boardVars>>
    \/ ClaimDailyReward /\ UNCHANGED <<auditVars, arenaVars, syncVars, mergeVars, boardVars>>
    \/ MidnightCheck /\ UNCHANGED <<auditVars, arenaVars, syncVars, mergeVars, boardVars>>
    \/ \E id \in PowerUpIds : ActivatePowerUp(id) /\ UNCHANGED <<auditVars, arenaVars, syncVars, mergeVars, boardVars>>
    \/ \E id \in PowerUpIds : DeactivatePowerUp(id) /\ UNCHANGED <<auditVars, arenaVars, syncVars, mergeVars, boardVars>>
    \/ CooldownTick /\ UNCHANGED <<auditVars, arenaVars, syncVars, mergeVars, boardVars>>
    \/ ResetGameState /\ UNCHANGED <<auditVars, arenaVars, syncVars, mergeVars, boardVars>>
    \/ \E amount \in DebugScores : AddDebugScore(amount) /\ UNCHANGED <<auditVars, arenaVars, syncVars, mergeVars, boardVars>>
    \/ Restart /\ UNCHANGED <<auditVars, arenaVars, syncVars, mergeVars, boardVars>>


SyncNext ==
    \/ \E item \in SyncInputs :
          EnqueueSync(item.priority, item.maxAttempts) /\ UNCHANGED <<auditVars, arenaVars, gameVars, mergeVars, boardVars>>
    \/ \E i \in 1..Len(drainTimers) : DrainTimerFires(i) /\ UNCHANGED <<auditVars, arenaVars, gameVars, mergeVars, boardVars>>
    \/ RetryTimerFires /\ UNCHANGED <<auditVars, arenaVars, gameVars, mergeVars, boardVars>>
    \/ SubmissionsSettle /\ UNCHANGED <<auditVars, arenaVars, gameVars, mergeVars, boardVars>>
    \/ InitPersistence /\ UNCHANGED <<auditVars, arenaVars, gameVars, mergeVars, boardVars>>
    \/ Online /\ UNCHANGED <<auditVars, arenaVars, gameVars, mergeVars, boardVars>>
    \/ Offline /\ UNCHANGED <<auditVars, arenaVars, gameVars, mergeVars, boardVars>>
    \/ SyncCleanup /\ UNCHANGED <<auditVars, arenaVars, gameVars, mergeVars, boardVars>>
    \/ PageLoad /\ UNCHANGED <<auditVars, arenaVars, gameVars, mergeVars, boardVars>>
    \/ SyncAdvanceClock /\ UNCHANGED <<auditVars, arenaVars, gameVars, mergeVars, boardVars>>

ArenaTeardownNext ==
    \/ Connect /\ UNCHANGED <<auditVars, gameVars, syncVars, mergeVars, boardVars>>
    \/ \E c \in ConnIds : Move(c) /\ UNCHANGED <<auditVars, gameVars, syncVars, mergeVars, boardVars>>
    \/ \E c \in ConnIds : Slap(c) /\ UNCHANGED <<auditVars, gameVars, syncVars, mergeVars, boardVars>>
    \/ Tick /\ UNCHANGED <<auditVars, gameVars, syncVars, mergeVars, boardVars>>
    \/ ResetGame /\ UNCHANGED <<auditVars, gameVars, syncVars, mergeVars, boardVars>>
    \/ \E c \in ConnIds : SocketErrorCounted(c) /\ UNCHANGED <<episode, activation, intent, slapCall, gameVars, syncVars, mergeVars, boardVars>>
    \/ \E c \in ConnIds : SocketCloseCounted(c) /\ UNCHANGED <<episode, activation, intent, slapCall, gameVars, syncVars, mergeVars, boardVars>>

ArenaIntentsNext ==
    \/ Connect /\ UNCHANGED <<auditVars, gameVars, syncVars, mergeVars, boardVars>>
    \/ \E c \in ConnIds : Move(c) /\ UNCHANGED <<auditVars, gameVars, syncVars, mergeVars, boardVars>>
    \/ \E c \in ConnIds : Slap(c) /\ UNCHANGED <<auditVars, gameVars, syncVars, mergeVars, boardVars>>
    \/ \E c \in ConnIds : RespawnRecorded(c)
          /\ UNCHANGED <<episode, departures, activation, slapCall, gameVars, syncVars, mergeVars, boardVars>>
    \/ \E c \in ConnIds, name \in ProfileNames :
          UpdateProfile(c, name) /\ UNCHANGED <<auditVars, gameVars, syncVars, mergeVars, boardVars>>
    \/ Tick /\ UNCHANGED <<auditVars, gameVars, syncVars, mergeVars, boardVars>>
    \/ ResetGame /\ UNCHANGED <<auditVars, gameVars, syncVars, mergeVars, boardVars>>

ArenaDroppedNext ==
    \/ Connect /\ UNCHANGED <<auditVars, gameVars, syncVars, mergeVars, boardVars>>
    \/ \E c \in ConnIds : Move(c) /\ UNCHANGED <<auditVars, gameVars, syncVars, mergeVars, boardVars>>
    \/ \E c \in ConnIds : Slap(c) /\ UNCHANGED <<auditVars, gameVars, syncVars, mergeVars, boardVars>>
    \/ Tick /\ UNCHANGED <<auditVars, gameVars, syncVars, mergeVars, boardVars>>
    \/ ResetGame /\ UNCHANGED <<auditVars, gameVars, syncVars, mergeVars, boardVars>>
    \/ Deliver /\ UNCHANGED <<auditVars, gameVars, syncVars, mergeVars, boardVars>>

ScoringNext ==
    \/ SlapRecorded /\ UNCHANGED <<episode, departures, activation, intent, arenaVars, syncVars, mergeVars, boardVars>>
    \/ AdvanceClock(MaxClockSteps) /\ UNCHANGED <<auditVars, arenaVars, syncVars, mergeVars, boardVars>>
    \/ \E id \in PowerUpIds :
          DeactivatePowerUp(id) /\ UNCHANGED <<auditVars, arenaVars, syncVars, mergeVars, boardVars>>

ArenaEpisodeNext ==
    \/ Connect /\ UNCHANGED <<auditVars, gameVars, syncVars, mergeVars, boardVars>>
    \/ \E c \in ConnIds : Slap(c) /\ UNCHANGED <<auditVars, gameVars, syncVars, mergeVars, boardVars>>
    \/ TickCounted
          /\ UNCHANGED <<departures, activation, intent, slapCall, gameVars, syncVars, mergeVars, boardVars>>
    \/ ResetCounted
          /\ UNCHANGED <<departures, activation, intent, slapCall, gameVars, syncVars, mergeVars, boardVars>>

PowerUpsNext ==
    \/ \E id \in ActivationIds : ActivateRecorded(id) /\ UNCHANGED <<episode, departures, intent, slapCall, arenaVars, syncVars, mergeVars, boardVars>>
    \/ \E id \in PowerUpIds : DeactivatePowerUp(id) /\ UNCHANGED <<auditVars, arenaVars, syncVars, mergeVars, boardVars>>
    \/ CooldownTick /\ UNCHANGED <<auditVars, arenaVars, syncVars, mergeVars, boardVars>>
    \/ Restart /\ UNCHANGED <<auditVars, arenaVars, syncVars, mergeVars, boardVars>>

MergeNext ==
    \/ MergeBoards /\ UNCHANGED <<auditVars, arenaVars, gameVars, syncVars, boardVars>>

\* the steps of the sync queue in a run that goes on for ever
SyncLiveEnqueue ==
    \E item \in SyncLiveInputs :
       EnqueueSyncUpTo(MaxLiveItems, item.priority, item.maxAttempts) /\ UNCHANGED <<auditVars, arenaVars, gameVars, mergeVars, boardVars>>

SyncLiveDrainTimer ==
    \E i \in 1..Len(drainTimers) : DrainTimerFires(i) /\ UNCHANGED <<auditVars, arenaVars, gameVars, mergeVars, boardVars>>

SyncLiveRetryTimer == RetryTimerFires /\ UNCHANGED <<auditVars, arenaVars, gameVars, mergeVars, boardVars>>

SyncLiveSettle == SubmissionsSettle /\ UNCHANGED <<auditVars, arenaVars, gameVars, mergeVars, boardVars>>

SyncLiveInit == InitPersistence /\ UNCHANGED <<auditVars, arenaVars, gameVars, mergeVars, boardVars>>

SyncLiveOnline == OnlineUpTo(MaxLiveEvents) /\ UNCHANGED <<auditVars, arenaVars, gameVars, mergeVars, boardVars>>

SyncLiveOffline == OfflineUpTo(MaxLiveEvents) /\ UNCHANGED <<auditVars, arenaVars, gameVars, mergeVars, boardVars>>

SyncLiveDelay ==
    SyncTimePasses(SYNC_RETRY_DELAY) /\ UNCHANGED <<auditVars, arenaVars, gameVars, mergeVars, boardVars>>

SyncLiveNext ==
    \/ SyncLiveEnqueue
    \/ SyncLiveDrainTimer
    \/ SyncLiveRetryTimer
    \/ SyncLiveSettle
    \/ SyncLiveInit
    \/ SyncLiveOnline
    \/ SyncLiveOffline
    \/ SyncLiveDelay

\* timers that are due fire, submissions settle, the two initPersistence calls of the page
\* load are made, and time goes on
SyncLiveFairness ==
    /\ WF_vars(SyncLiveDrainTimer)
    /\ WF_vars(SyncLiveRetryTimer)
    /\ WF_vars(SyncLiveSettle)
    /\ WF_vars(SyncLiveInit)
    /\ WF_vars(SyncLiveDelay)

\* updateLeaderboard inside Telegram, and the sync queue draining what it enqueued
BoardSyncNext ==
    \/ \E id \in LbUsers, score \in LbScores :
          UpdateLeaderboard(id, score, TRUE) /\ UNCHANGED <<auditVars, arenaVars, gameVars, mergeVars>>
    \/ \E i \in 1..Len(drainTimers) : DrainTimerFires(i) /\ UNCHANGED <<auditVars, arenaVars, gameVars, mergeVars, boardVars>>
    \/ RetryTimerFires /\ UNCHANGED <<auditVars, arenaVars, gameVars, mergeVars, boardVars>>
    \/ SubmissionsSettle /\ UNCHANGED <<auditVars, arenaVars, gameVars, mergeVars, boardVars>>
    \/ SyncTimePasses(SYNC_RETRY_DELAY) /\ UNCHANGED <<auditVars, arenaVars, gameVars, mergeVars, boardVars>>

SyncCapNext ==
    \/ \E item \in SyncOrderInputs :
          EnqueueSyncCapped(MaxCapItems, SmallQueueCap, item.priority, item.maxAttempts)
            /\ UNCHANGED <<auditVars, arenaVars, gameVars, mergeVars, boardVars>>
    \/ \E i \in 1..Len(drainTimers) : DrainTimerFires(i) /\ UNCHANGED <<auditVars, arenaVars, gameVars, mergeVars, boardVars>>
    \/ RetryTimerFires /\ UNCHANGED <<auditVars, arenaVars, gameVars, mergeVars, boardVars>>
    \/ SubmissionsSettle /\ UNCHANGED <<auditVars, arenaVars, gameVars, mergeVars, boardVars>>
    \/ SyncAdvanceClock /\ UNCHANGED <<auditVars, arenaVars, gameVars, mergeVars, boardVars>>

SyncOrderNext ==
    \/ \E item \in SyncOrderInputs :
          EnqueueSyncUpTo(MaxOrderItems, item.priority, item.maxAttempts)
            /\ UNCHANGED <<auditVars, arenaVars, gameVars, mergeVars, boardVars>>
    \/ \E id \in 1..MaxOrderItems : DequeueCall(id) /\ UNCHANGED <<auditVars, arenaVars, gameVars, mergeVars, boardVars>>
    \/ \E i \in 1..Len(drainTimers) : DrainTimerFires(i) /\ UNCHANGED <<auditVars, arenaVars, gameVars, mergeVars, boardVars>>
    \/ RetryTimerFires /\ UNCHANGED <<auditVars, arenaVars, gameVars, mergeVars, boardVars>>
    \/ SubmissionsSettle /\ UNCHANGED <<auditVars, arenaVars, gameVars, mergeVars, boardVars>>
    \/ SyncAdvanceClock /\ UNCHANGED <<auditVars, arenaVars, gameVars, mergeVars, boardVars>>

BoardNext ==
    \/ \E stale \in BOOLEAN : InitLeaderboard(stale) /\ UNCHANGED <<auditVars, arenaVars, gameVars, syncVars, mergeVars>>
    \/ \E id \in LbUsers, score \in LbScores, inside \in BOOLEAN :
          UpdateLeaderboard(id, score, inside) /\ UNCHANGED <<auditVars, arenaVars, gameVars, mergeVars>>
    \/ RefreshLeaderboard /\ UNCHANGED <<auditVars, arenaVars, gameVars, syncVars, mergeVars>>
    \/ RefreshCompletes /\ UNCHANGED <<auditVars, arenaVars, gameVars, syncVars, mergeVars>>
    \/ SyncTimerFires /\ UNCHANGED <<auditVars, arenaVars, gameVars, syncVars, mergeVars>>
    \/ BoardOnline /\ UNCHANGED <<auditVars, arenaVars, gameVars, syncVars, mergeVars>>
    \/ BoardOffline /\ UNCHANGED <<auditVars, arenaVars, gameVars, syncVars, mergeVars>>
    \/ BoardCleanup /\ UNCHANGED <<auditVars, arenaVars, gameVars, syncVars, mergeVars>>

\* the Arena Server alone
SpecArena == Init /\ [][ArenaNext]_vars

\* the Arena Server under connect, numeric moves, slaps, ticks and resets
SpecArenaMoves == InitLongRound /\ [][ArenaMovesNext]_vars

\* the Arena Server with the Arena Client Session of one connection
SpecArenaView == InitObserved /\ [][ArenaViewNext]_vars

\* the single-player game: GameState, Rate Limiter / Combo Engine, Power-Up Scheduler
SpecGame == Init /\ [][GameNext]_vars

\* the Rate Limiter / Combo Engine under taps, the passing of time and resets
SpecTaps == Init /\ [][TapsNext]_vars

\* the Offline Sync Queue
SpecSync == Init /\ [][SyncNext]_vars

\* the Leaderboard Merge on two leaderboards
SpecMerge == InitBoards /\ [][MergeNext]_vars

\* taps, the clock and resets, with the end of every slap() call recorded
SpecTapsRecorded == InitOnline /\ [][TapsRecordedNext]_vars

\* the Arena Server with players that are dead or out of gas, one client's view followed
SpecArenaDropped == InitLowGas /\ [][ArenaDroppedNext]_vars

\* taps deep into play, with any combo and any scoring power-ups active
SpecScoring == InitScoring /\ [][ScoringNext]_vars

\* validateLeaderboardEntry on every entry of RawEntries
SpecEntry == InitEntry /\ [][EntryNext]_vars

\* the Arena Server through last-player-standing episodes and their resets
SpecArenaEpisode == InitEpisode /\ [][ArenaEpisodeNext]_vars

\* the Arena Server with every kind of message a client sends
SpecArenaIntents == InitOnline /\ [][ArenaIntentsNext]_vars

\* the Arena Server with the departures counted
SpecArenaTeardown == InitOnline /\ [][ArenaTeardownNext]_vars

\* the Power-Up Scheduler with the outcome of every activation recorded
SpecPowerUps == InitPowerUpsLate /\ [][PowerUpsNext]_vars

\* the sync queue with items of every priority
\* the sync queue in a run that goes on for ever: timers fire, submissions settle
SpecSyncLive == Init /\ [][SyncLiveNext]_vars /\ SyncLiveFairness

\* leaderboard updates and the submissions of the sync items they enqueue
SpecBoardSync == InitOnline /\ [][BoardSyncNext]_vars

\* the sync queue with a size cap small enough to overflow
SpecSyncCap == Init /\ [][SyncCapNext]_vars

SpecSyncOrder == InitOnline /\ [][SyncOrderNext]_vars

\* the leaderboard module from empty storage
SpecBoard == InitLeaderboardEmpty /\ [][BoardNext]_vars

\* the leaderboard module from the storage of an earlier session
SpecBoardStored == InitLeaderboardStored /\ [][BoardNext]_vars

(***************************************************************************)
(* Claims: Arena                                                           *)
(***************************************************************************)
\* the target is at a numeric Euclidean distance below 60 from the attacker
C1_Within60(a, t) ==
    /\ a.x >= 0 /\ a.y >= 0 /\ t.x >= 0 /\ t.y >= 0
    /\ (t.x - a.x) * (t.x - a.x) + (t.y - a.y) * (t.y - a.y) < 60 * 60

\* C1: a slap whose target is not within distance 60 of the attacker leaves the target's
\* health unchanged; an accepted slap at an alive target within distance 60 lowers the
\* target's health by exactly 25; a slap changes the alive flag of the target only, from
\* true to false, exactly when the hit brings its health to 0 or below; a dead target's
\* health is not changed again.
C1_SlapHitResolution ==
    [][(lastSlap' # NoSlap /\ lastSlap'.target \in DOMAIN players) =>
         LET a == lastSlap'.by
             t == lastSlap'.target
             accepted == players[a].alive /\ players[a].gas >= 20
             near == C1_Within60(players[a], players[t])
         IN /\ ~near => players'[t].health = players[t].health
            /\ ~players[t].alive => /\ players'[t].health = players[t].health
                                    /\ ~players'[t].alive
            /\ (accepted /\ players[t].alive /\ near) =>
                 /\ players'[t].health = players[t].health - 25
                 /\ players'[t].alive = (players'[t].health > 0)
            /\ \A i \in DOMAIN players :
                 players'[i].alive # players[i].alive =>
                   i = t /\ players[i].alive /\ players'[i].health <= 0
      ]_vars

\* C1 witness: a slap by another player has just killed its target
C1_Witness ==
    /\ lastSlap # NoSlap
    /\ lastSlap.target \in DOMAIN players
    /\ lastSlap.target # lastSlap.by
    /\ ~players[lastSlap.target].alive
    /\ players[lastSlap.target].health <= 0

C11_PlayersInBounds ==
    \A i \in DOMAIN players :
        /\ 0 <= players[i].health /\ players[i].health <= 100
        /\ 0 <= players[i].gas /\ players[i].gas <= 100
        /\ 1 <= players[i].combo /\ players[i].combo <= 50
        /\ players[i].score >= 0
        /\ 20 <= players[i].x /\ players[i].x <= 680
        /\ 20 <= players[i].y /\ players[i].y <= 480

\* a player asked for a position beyond the right and bottom edges and stands in the
\* corner; its combo is at the cap, it has been recharged, and the other player is dead
C11_Witness ==
    \E i, j \in DOMAIN players :
        /\ players[i].x = 680 /\ players[i].y = 480
        /\ players[i].combo = 50
        /\ players[i].gas > 20 /\ players[i].gas < 100
        /\ ~players[j].alive /\ players[j].health = 0
        /\ arenaTicks > 0

\* C8: once everything broadcast to a connected client has been delivered, the client's
\* view of every connected player equals the server's roster.
C8_ViewConverges ==
    (observed \in ConnIds /\ conn[observed] = "open" /\ inbox = <<>>) =>
      /\ DOMAIN view = DOMAIN players
      /\ \A i \in DOMAIN players :
           /\ view[i].x = players[i].x
           /\ view[i].y = players[i].y
           /\ view[i].health = players[i].health
           /\ view[i].gas = players[i].gas
           /\ view[i].score = players[i].score
           /\ view[i].combo = players[i].combo
           /\ view[i].alive = players[i].alive

(***************************************************************************)
(* Claims: GameState, Rate Limiter / Combo Engine, Power-Up Scheduler      *)
(***************************************************************************)
\* the taps among the last accepted ones that fall in the second ending at tap i
TapsInSecondEndingAt(i) ==
    {j \in 1..Len(acceptedTaps) :
        acceptedTaps[i] - TAP_WINDOW < acceptedTaps[j] /\ acceptedTaps[j] <= acceptedTaps[i]}

SlapAccepted ==
    /\ SlapTap
    /\ gameState'.totalSlaps = gameState.totalSlaps + 1
    /\ gameState'.lastSlapAt = now

\* the combo an accepted tap must leave, from the gap since the last accepted tap
C3_ExpectedCombo ==
    IF now - gameState.lastSlapAt >= 1200 THEN 1 ELSE Min(gameState.combo + 1, 50)

\* C3, as stated: an accepted tap sets combo to 1 after a gap >= 1200 ms since the last
\* accepted tap and to min(previous + 1, 50) otherwise, and no other operation of a
\* session changes the combo
C3_OnlySlapChangesCombo ==
    [][/\ SlapAccepted => gameState'.combo = C3_ExpectedCombo
       /\ ~SlapAccepted /\ ~Restart => gameState'.combo = gameState.combo]_vars

\* C3, amended: an accepted tap sets combo to 1 after a gap >= 1200 ms since the last
\* accepted tap and to min(previous + 1, 50) otherwise; resetGameState sets it to 1; no
\* other operation of a session changes the combo
C3_SlapAndResetChangeCombo ==
    [][/\ SlapAccepted => gameState'.combo = C3_ExpectedCombo
       /\ ResetGameState => gameState'.combo = 1
       /\ ~SlapAccepted /\ ~ResetGameState /\ ~Restart
            => gameState'.combo = gameState.combo]_vars

\* a combo was built up, and a tap accepted after a gap of 1200 ms or more reset it to 1
C3_Witness ==
    /\ gameState.totalSlaps >= 3
    /\ gameState.highestCombo >= 2
    /\ gameState.combo = 1
    /\ gameState.lastSlapAt = now

\* a power-up's unlocked flag never returns to false; it turns true only in a step that
\* leaves the score at or above the power-up's threshold, and that step fires the unlock
\* event; the unlock event fires at most once per power-up, also when the score is reset
\* and crosses the threshold again
C7_OneWayOnce ==
    \A id \in PowerUpIds :
        /\ powerUpsState[id].unlocked => powerUpsState'[id].unlocked
        /\ ~powerUpsState[id].unlocked /\ powerUpsState'[id].unlocked
             => /\ gameState'.score >= unlockThreshold(id)
                /\ unlockEvents'[id] = unlockEvents[id] + 1
        /\ unlockEvents'[id] <= 1

\* the step takes the score from below a power-up's threshold to it or above it
C7_Reaches(id) ==
    /\ gameState.score < unlockThreshold(id)
    /\ gameState'.score >= unlockThreshold(id)

\* C7: a power-up's unlocked flag changes from false to true at most once, in the step in
\* which the score first reaches the power-up's threshold, and never returns to false;
\* the unlock event fires at most once per power-up, also when the score is reset and
\* crosses the threshold again (the steps of the debugging hook addDebugScore aside)
C7_UnlockOnce ==
    [][/\ C7_OneWayOnce
       /\ ~(\E amount \in DebugScores : AddDebugScore(amount))
            => \A id \in PowerUpIds :
                  C7_Reaches(id) /\ unlockEvents[id] = 0 => powerUpsState'[id].unlocked]_vars

C10_ComboInRange == gameState.combo >= 1 /\ gameState.combo <= 50

(***************************************************************************)
(* Claims: Offline Sync Queue                                              *)
(***************************************************************************)
\* C4: an item whose submission has failed maxAttempts times is no longer in the queue,
\* an item that has left the queue (on success or eviction) is not in it again, and no
\* item is submitted after it has left the queue
C4_EvictedOrRemovedForGood ==
    \A id \in DOMAIN syncLog :
        /\ syncLog[id].failed >= syncLog[id].maxAttempts => id \notin QueueIds
        /\ syncLog[id].left => id \notin QueueIds
        /\ ~syncLog[id].late

(***************************************************************************)
(* Claims: Leaderboard Merge                                               *)
(***************************************************************************)
\* the entries of the two leaderboards, by side and position
BoardPositions ==
    {<<"A", i>> : i \in 1..Len(boardA)} \cup {<<"B", i>> : i \in 1..Len(boardB)}

EntryAt(pos) == IF pos[1] = "A" THEN boardA[pos[2]] ELSE boardB[pos[2]]

\* the scores of the entries of the two leaderboards are pairwise distinct, and so are
\* their timestamps
C5_PairwiseDistinct ==
    \A p, q \in BoardPositions :
        p # q => /\ EntryAt(p).score # EntryAt(q).score
                 /\ EntryAt(p).timestamp # EntryAt(q).timestamp

\* C5: merging a leaderboard with itself yields the leaderboard, and merging two
\* leaderboards whose scores and timestamps are pairwise distinct yields the same
\* ranking whichever is primary
C5_IdempotentAndCommutative ==
    merges.done =>
        /\ merges.aa = boardA
        /\ C5_PairwiseDistinct => merges.ab = merges.ba

\* two full leaderboards with pairwise distinct scores and timestamps that share an id
\* were merged, and the result was truncated
C5_Witness ==
    /\ merges.done
    /\ C5_PairwiseDistinct
    /\ Len(boardA) = MaxBoardLen /\ Len(boardB) = MaxBoardLen
    /\ \E i \in 1..Len(boardA), j \in 1..Len(boardB) : boardA[i].id = boardB[j].id
    /\ boardCap = MaxBoardLen
    /\ Len(merges.ab) = MaxBoardLen

C13_Rank(priority) == CASE priority = "high" -> 1 [] priority = "normal" -> 2 [] priority = "low" -> 3

C13_QueueOrdered ==
    \A i, j \in 1..Len(syncQueue) :
        i < j =>
          LET a == syncObjects[syncQueue[i]]
              b == syncObjects[syncQueue[j]]
          IN \/ C13_Rank(a.priority) < C13_Rank(b.priority)
             \/ C13_Rank(a.priority) = C13_Rank(b.priority) /\ a.timestamp <= b.timestamp

\* a low item enqueued first stands behind a normal and a high item enqueued later, after a
\* drain and a dequeueSync
C13_Witness ==
    /\ Len(syncQueue) = 2
    /\ syncObjects[syncQueue[1]].priority = "normal"
    /\ syncObjects[syncQueue[2]].priority = "low"
    /\ syncObjects[syncQueue[2]].timestamp < syncObjects[syncQueue[1]].timestamp
    /\ \E id \in DOMAIN syncLog : syncLog[id].left /\ syncLog[id].maxAttempts = 1

(***************************************************************************)
(* C14: at no time are two executions of the sync-queue drain in flight at  *)
(* once, and at no time are two executions of the leaderboard refresh in    *)
(* flight at once, in every interleaving of enqueue, timers, connectivity   *)
(* events, refresh requests and cleanup() calls.                            *)
(***************************************************************************)
C14_OneDrainOneRefresh ==
    /\ Len(drains) <= 1
    /\ refreshes <= 1

\* the refresh's half of the claim alone
C14_OneRefresh == refreshes <= 1

(***************************************************************************)
(* C15: for every connection, whichever of its close and error events       *)
(* occur and in whatever order, the connection's player is removed from the *)
(* roster exactly once and exactly one playerLeft departure is broadcast    *)
(* for it.                                                                  *)
(***************************************************************************)
C15_DepartsExactlyOnce ==
    \A c \in ConnIds :
        /\ conn[c] \in {"none", "open"} => departures[c] = [removed |-> 0, left |-> 0]
        /\ conn[c] \in {"closing", "closed"} =>
             /\ c \notin DOMAIN players
             /\ departures[c] = [removed |-> 1, left |-> 1]

\* the removal's half of the claim alone
C15_RemovedExactlyOnce ==
    \A c \in ConnIds :
        /\ conn[c] \in {"none", "open"} => departures[c].removed = 0
        /\ conn[c] \in {"closing", "closed"} => c \notin DOMAIN players /\ departures[c].removed = 1

(***************************************************************************)
(* C16: activatePowerUp(id) fails with a distinct error for each of unknown *)
(* id, not unlocked, cooldown > 0 and already active, and on each failure   *)
(* leaves every power-up's state unchanged; it succeeds only when the       *)
(* power-up is unlocked, has cooldown 0 and is not active, and then sets    *)
(* active, the per-kind duration and the per-kind cooldown.                 *)
(***************************************************************************)
\* the condition each error stands for
C16_ErrorMeans(error, id) ==
    CASE error = "Invalid power-up ID" -> id \notin PowerUpIds
      [] error = "Power-up not unlocked" -> id \in PowerUpIds /\ ~powerUpsState[id].unlocked
      [] error = "Power-up on cooldown" -> id \in PowerUpIds /\ powerUpsState[id].cooldown > 0
      [] error = "Power-up already active" -> id \in PowerUpIds /\ powerUpsState[id].active
      [] OTHER -> FALSE

C16_Ready(id) ==
    /\ id \in PowerUpIds
    /\ powerUpsState[id].unlocked
    /\ powerUpsState[id].cooldown = 0
    /\ ~powerUpsState[id].active

C16_ActivationContract ==
    [][\A id \in ActivationIds :
          ActivateRecorded(id) =>
            IF activation'.outcome = "ok"
              THEN /\ C16_Ready(id)
                   /\ powerUpsState'[id] = [unlocked |-> TRUE, active |-> TRUE,
                                            duration |-> getPowerUpDuration(id),
                                            cooldown |-> getPowerUpCooldown(id)]
                   /\ \A other \in PowerUpIds \ {id} : powerUpsState'[other] = powerUpsState[other]
              ELSE /\ ~C16_Ready(id)
                   /\ C16_ErrorMeans(activation'.outcome, id)
                   /\ powerUpsState' = powerUpsState
                   /\ pendingDeactivations' = pendingDeactivations]_vars

\* the rarest outcome: a call for a power-up that is active with its cooldown run down
\* has failed as already active, with other power-ups unlocked since and one still locked
C16_Witness ==
    /\ activation.outcome = "Power-up already active"
    /\ powerUpsState[activation.id].active
    /\ \E id \in PowerUpIds \ {activation.id} : powerUpsState[id].unlocked
    /\ \E id \in PowerUpIds : ~powerUpsState[id].unlocked

\* a call has succeeded
C16_Activated ==
    /\ activation.outcome = "ok"
    /\ powerUpsState[activation.id].active
    /\ pendingDeactivations[activation.id] > 0

(***************************************************************************)
(* C17: every power-up that is active is eventually deactivated             *)
(* automatically (active = false, duration = 0) with no user action, in     *)
(* every run made of activatePowerUp, the deactivation timer, the cooldown  *)
(* tick and a session restart that reloads the saved power-up state.        *)
(***************************************************************************)
\* an active power-up is deactivated by its timer and by nothing else (a reset, a tick
\* and a failed activation leave the flag), so it is eventually deactivated only if a
\* timer is pending for it
C17_ActiveHasTimer ==
    \A id \in PowerUpIds : powerUpsState[id].active => pendingDeactivations[id] > 0

(***************************************************************************)
(* C18: in the Arena Server, Dead is left only by an explicit respawn       *)
(* intent or a global reset: a dead player that sends a respawn intent      *)
(* becomes alive again, and no move, slap, profile update or regeneration   *)
(* tick makes a dead player alive.                                          *)
(***************************************************************************)
C18_Dead(c) == c \in DOMAIN players /\ ~players[c].alive

C18_Revived(c) == C18_Dead(c) /\ c \in DOMAIN players' /\ players'[c].alive

C18_RespawnOrResetRevives ==
    [][\A c \in ConnIds :
          /\ C18_Dead(c) /\ RespawnRecorded(c) => C18_Revived(c)
          /\ C18_Revived(c) => RespawnRecorded(c) \/ ResetGame]_vars

\* the second half of the claim alone
C18_NothingElseRevives ==
    [][\A c \in ConnIds : C18_Revived(c) => RespawnRecorded(c) \/ ResetGame]_vars

(***************************************************************************)
(* C19: whenever a regeneration tick finds exactly one player alive while   *)
(* more than one player is connected, a full-roster reset happens 3 seconds *)
(* later: every connected player gets health 100, gas 100, score 0,         *)
(* combo 1, alive = true and a fresh in-bounds position, and a gameReset is *)
(* broadcast.                                                               *)
(***************************************************************************)
\* the step is a regeneration tick
C19_TickStep == arenaTicks' = arenaTicks + 1

\* the step is a reset: a pending reset is gone
C19_ResetStep == Len(resetTimers') < Len(resetTimers)

C19_OneLeft ==
    /\ Cardinality({i \in DOMAIN players : players[i].alive}) = 1
    /\ Cardinality(DOMAIN players) > 1

C19_FullRoster ==
    /\ DOMAIN players' = DOMAIN players
    /\ \A i \in DOMAIN players' :
         /\ players'[i].health = 100
         /\ players'[i].gas = 100
         /\ players'[i].score = 0
         /\ players'[i].combo = 1
         /\ players'[i].alive
         /\ players'[i].x >= 20 /\ players'[i].x <= 680
         /\ players'[i].y >= 20 /\ players'[i].y <= 480

C19_ResetBroadcast ==
    conn[observed] = "open" =>
        /\ Len(inbox') = Len(inbox) + 1
        /\ inbox'[Len(inbox')].type = "gameReset"
        /\ inbox'[Len(inbox')].players = players'

\* a tick that finds one player left sets a reset 3 ticks of 1 s ahead; a pending reset
\* comes one tick nearer with every tick and goes only by running, when it is due, after
\* the second tick that followed and not later than the third; the reset does what the
\* claim says
C19_ResetAfterOneLeft ==
    [][/\ C19_TickStep /\ C19_OneLeft =>
            /\ Len(resetTimers') = Len(resetTimers) + 1
            /\ resetTimers'[Len(resetTimers')] = 3
       /\ C19_TickStep =>
            \A i \in 1..Len(resetTimers) :
                resetTimers[i] > 0 /\ resetTimers'[i] = resetTimers[i] - 1
       /\ ~C19_TickStep /\ ~C19_ResetStep => resetTimers' = resetTimers
       /\ C19_ResetStep =>
            /\ resetTimers' = Tail(resetTimers)
            /\ Head(resetTimers) \in {0, 1}
            /\ C19_FullRoster
            /\ C19_ResetBroadcast]_vars

\* a reset has run in a round in which one player had killed the other: both are alive
\* with score 0 and the observed client has the gameReset in flight
C19_Witness ==
    /\ arenaSlaps = MaxArenaSlaps
    /\ arenaTicks = MaxArenaTicks
    /\ Cardinality(DOMAIN players) = 2
    /\ \A i \in DOMAIN players : players[i].alive /\ players[i].score = 0 /\ players[i].health = 100
    /\ inbox # <<>>
    /\ inbox[Len(inbox)].type = "gameReset"

(***************************************************************************)
(* C20: a slap() call made while the 1-second window already holds 4        *)
(* accepted taps, or less than 250 ms after the last accepted tap, is       *)
(* dropped silently: it raises no error and leaves score, combo,            *)
(* lastSlapAt, totalSlaps and the statistics unchanged.                     *)
(***************************************************************************)
\* accepted taps of the last second, at the time of the call
C20_WindowFull == Cardinality({i \in 1..Len(tapsWindow) : now - tapsWindow[i] < 1000}) >= 4

C20_TooSoon == now - gameState.lastSlapAt < 250

C20_DroppedSilently ==
    [][SlapRecorded /\ (C20_WindowFull \/ C20_TooSoon) =>
          /\ ~slapCall'.threw
          /\ gameState' = gameState]_vars

\* the state's half of the claim alone: the rejected call changes nothing
C20_DroppedUnchanged ==
    [][SlapRecorded /\ (C20_WindowFull \/ C20_TooSoon) => gameState' = gameState]_vars

\* the minimum interval's half of the claim alone
C20_TooSoonSilent ==
    [][SlapRecorded /\ C20_TooSoon /\ ~C20_WindowFull =>
          /\ ~slapCall'.threw
          /\ gameState' = gameState]_vars

(***************************************************************************)
(* C21: in the Arena Server, a move intent from a dead player, and a slap   *)
(* intent from a player that is dead or has gas < 20, change no player's    *)
(* state and cause no broadcast.                                            *)
(***************************************************************************)
C21_DeadMove(c) == c \in DOMAIN players /\ ~players[c].alive /\ Move(c)

C21_SpentSlap(c) ==
    /\ c \in DOMAIN players
    /\ ~players[c].alive \/ players[c].gas < 20
    /\ Slap(c)

C21_RejectedIntentsDropped ==
    [][\A c \in ConnIds :
          C21_DeadMove(c) \/ C21_SpentSlap(c) => players' = players /\ inbox' = inbox]_vars

\* the last message the server handled came from a dead player, while a client was
\* connected to hear of any change
C21_Witness ==
    /\ lastSlap.by \in DOMAIN players
    /\ ~players[lastSlap.by].alive
    /\ lastSlap.target # lastSlap.by
    /\ conn[observed] = "open"

\* the slap of a player out of gas was the last message handled, before any slap was
\* accepted
C21_SpentSlapHandled ==
    /\ lastSlap.by \in DOMAIN players
    /\ players[lastSlap.by].alive
    /\ players[lastSlap.by].gas < SLAP_GAS_COST
    /\ arenaSlaps = 0
    /\ Cardinality(DOMAIN players) > 1

(***************************************************************************)
(* C22: every item placed in the sync queue eventually leaves it, removed   *)
(* on success or evicted after a bounded number of failed attempts,         *)
(* provided the client is eventually online and stays online; no item is    *)
(* retried indefinitely and no item stays queued forever.                   *)
(***************************************************************************)
C22_Queued(id) == \E i \in 1..Len(syncQueue) : syncObjects[syncQueue[i]].id = id

C22_BoundedAttempts ==
    \A id \in DOMAIN syncLog : syncLog[id].failed <= syncLog[id].maxAttempts + INIT_CALLS

(***************************************************************************)
(* C23: an accepted Arena slap (attacker alive, gas >= 20) lowers the       *)
(* attacker's gas by 20, raises its score by 10 and sets its combo to       *)
(* min(combo + 1, 50), and always broadcasts the attacker's updated         *)
(* gas/score/combo whether or not a hit resolved; a freshly joined player   *)
(* that slaps once with no target ends with score 10, combo 2, gas 80.      *)
(* As amended: the score rises by 10, and when a hit resolves by a further  *)
(* 50 x the new combo, and by 200 more when the hit kills.                  *)
(***************************************************************************)
C23_Accepted(c) ==
    /\ c \in DOMAIN players
    /\ players[c].alive
    /\ players[c].gas >= 20
    /\ Slap(c)

\* the slap named a connected, living target less than 60 away
C23_HitLanded(c) ==
    LET t == lastSlap'.target
    IN /\ t \in DOMAIN players
       /\ players[t].alive
       /\ players[c].x >= 0 /\ players[c].y >= 0 /\ players[t].x >= 0 /\ players[t].y >= 0
       /\ (players[t].x - players[c].x) * (players[t].x - players[c].x)
            + (players[t].y - players[c].y) * (players[t].y - players[c].y) < 60 * 60

C23_HitPoints(c) ==
    IF C23_HitLanded(c)
      THEN 50 * players'[c].combo
             + (IF players'[lastSlap'.target].alive THEN 0 ELSE 200)
      ELSE 0

C23_CostAndCombo(c) ==
    /\ players'[c].gas = players[c].gas - 20
    /\ players'[c].combo = (IF players[c].combo + 1 < 50 THEN players[c].combo + 1 ELSE 50)

\* every open connection is sent, last of all, the attacker's gas, score and combo
C23_UpdateBroadcast(c) ==
    conn[observed] = "open" =>
        /\ Len(inbox') > Len(inbox)
        /\ inbox'[Len(inbox')] =
             [type |-> "playerUpdate", id |-> c, gas |-> players'[c].gas,
              score |-> players'[c].score, combo |-> players'[c].combo]

C23_ScenarioA(c) ==
    players[c].score = 0 /\ players[c].combo = 1 /\ players[c].gas = 100
        /\ lastSlap'.target = NoTarget
      => players'[c].score = 10 /\ players'[c].combo = 2 /\ players'[c].gas = 80

C23_AcceptedSlapEffect ==
    [][\A c \in ConnIds :
          C23_Accepted(c) =>
              /\ C23_CostAndCombo(c)
              /\ players'[c].score = players[c].score + 10 + C23_HitPoints(c)
              /\ C23_UpdateBroadcast(c)
              /\ C23_ScenarioA(c)]_vars

\* the claim as written: the score rises by 10, hit or no hit
C23_ScoreRisesByTen ==
    [][\A c \in ConnIds :
          C23_Accepted(c) =>
              /\ C23_CostAndCombo(c)
              /\ players'[c].score = players[c].score + 10
              /\ C23_UpdateBroadcast(c)
              /\ C23_ScenarioA(c)]_vars

\* the last message sent is the update of a slap that hit its target, and a client was
\* connected to receive it
C23_Witness ==
    /\ lastSlap.by \in DOMAIN players
    /\ lastSlap.target \in DOMAIN players
    /\ hitLog[lastSlap.target].slaps >= 1
    /\ conn[observed] = "open"
    /\ inbox # <<>>
    /\ inbox[Len(inbox)].type = "playerUpdate"
    /\ inbox[Len(inbox)].id = lastSlap.by
    /\ inbox[Len(inbox)].score > 10

\* scenario A as the server holds it: the only player, just joined, has slapped once at
\* no target
C23_ScenarioAReached ==
    /\ lastSlap.by \in DOMAIN players
    /\ lastSlap.target = NoTarget
    /\ arenaSlaps = 1
    /\ players[lastSlap.by].score = 10
    /\ players[lastSlap.by].combo = 2
    /\ players[lastSlap.by].gas = 80

(***************************************************************************)
(* C24: for every accepted slap(), the points awarded equal                 *)
(* floor(newCombo x 2 if doublePoints is active x 1.5 if rapidFire is       *)
(* active x 3 if boost is active) and never exceed 1000, so the 'Invalid    *)
(* score increment' error is never raised for any combo in 1..50 and any    *)
(* set of simultaneously active power-ups.                                  *)
(***************************************************************************)
\* the call passes the rate limit and the minimum interval
C24_PastTheLimiters ==
    /\ Cardinality({i \in 1..Len(tapsWindow) : now - tapsWindow[i] < 1000}) < 4
    /\ now - gameState.lastSlapAt >= 250

\* twice the product of the active multipliers
C24_TwiceFactor ==
    (IF powerUpsState["doublePoints"].active THEN 2 ELSE 1)
      * (IF powerUpsState["rapidFire"].active THEN 3 ELSE 2)
      * (IF powerUpsState["boost"].active THEN 3 ELSE 1)

C24_PointsWithinLimit ==
    [][SlapRecorded /\ C24_PastTheLimiters /\ gameState.combo \in 1..50 =>
          /\ ~slapCall'.threw
          /\ gameState'.combo \in 1..50
          /\ gameState'.score - gameState.score = (gameState'.combo * C24_TwiceFactor) \div 2
          /\ gameState'.score - gameState.score <= 1000]_vars

\* a tap at combo 50 with doublePoints, rapidFire and boost active has just been awarded
\* its 450 points
C24_Witness ==
    /\ slapCall.time = now
    /\ ~slapCall.threw
    /\ gameState.lastSlapAt = now
    /\ gameState.combo = 50
    /\ \A id \in ScoringPowerUps : powerUpsState[id].active
    /\ gameState.score >= unlockThreshold("boost") + 450

(***************************************************************************)
(* C25: enqueueSync never leaves more items in the sync queue than the size *)
(* cap, and when an enqueue overflows the cap the items dropped are the     *)
(* oldest ones (those with the earliest creation timestamps).               *)
(***************************************************************************)
C25_Enqueued == syncBudget'.items = syncBudget.items + 1

\* the creation timestamps of the items the enqueue dropped: queued items that are gone,
\* and the new item if it is not in the queue
C25_DroppedTimestamps ==
    {syncObjects[syncQueue[i]].timestamp :
        i \in {j \in 1..Len(syncQueue) : \A n \in 1..Len(syncQueue') : syncQueue'[n] # syncQueue[j]}}
      \cup (IF \E n \in 1..Len(syncQueue') : syncObjects'[syncQueue'[n]].id = syncBudget'.items
              THEN {}
              ELSE {syncClock})

C25_KeptTimestamps == {syncObjects'[syncQueue'[n]].timestamp : n \in 1..Len(syncQueue')}

C25_CappedDroppingOldest ==
    [][C25_Enqueued =>
          /\ Len(syncQueue') <= SmallQueueCap
          /\ \A d \in C25_DroppedTimestamps : \A k \in C25_KeptTimestamps : d <= k]_vars

\* the half of the claim that holds: the queue never holds more than the cap
C25_WithinCap == Len(syncQueue) <= SmallQueueCap

\* what an overflowing enqueue drops is what the order puts last: no kept item has a lower
\* priority than a dropped one
C25_DroppedPriorities ==
    {syncObjects[syncQueue[i]].priority :
        i \in {j \in 1..Len(syncQueue) : \A n \in 1..Len(syncQueue') : syncQueue'[n] # syncQueue[j]}}

C25_DropsLastInOrder ==
    [][C25_Enqueued /\ Len(syncQueue) = SmallQueueCap /\ Len(syncQueue') = SmallQueueCap =>
          \A n \in 1..Len(syncQueue') :
             \A p \in C25_DroppedPriorities :
                priorityOrder(syncObjects'[syncQueue'[n]].priority) >= priorityOrder(p)]_vars

(***************************************************************************)
(* C26: the sync item that updateLeaderboard enqueues for a player-local    *)
(* update has priority normal and is submitted at most 3 times before it is *)
(* evicted.                                                                 *)
(***************************************************************************)
C26_AllNormal == \A r \in DOMAIN syncObjects : syncObjects[r].priority = "normal"

C26_NormalThreeAttempts ==
    /\ C26_AllNormal
    /\ \A id \in DOMAIN syncLog : syncLog[id].failed >= 3 => syncLog[id].left

\* what holds instead: priority normal, and eviction at the fifth failed submission
C26_NormalFiveAttempts ==
    /\ C26_AllNormal
    /\ \A id \in DOMAIN syncLog :
          /\ syncLog[id].failed <= 5
          /\ syncLog[id].failed = 5 => syncLog[id].left

\* an item of updateLeaderboard was evicted at its fifth failed submission
C26_FifthFailureReached ==
    \E id \in DOMAIN syncLog : syncLog[id].failed = 5 /\ syncLog[id].left

(***************************************************************************)
(* C27: a connectivity-lost event cancels any pending scheduled drain, so   *)
(* while the client stays offline no scheduled drain timer is pending, in   *)
(* every interleaving of the offline event with an in-flight drain; a       *)
(* connectivity-restored event triggers a drain attempt when the queue is   *)
(* non-empty.                                                               *)
(***************************************************************************)
C27_WentOffline == onlineStatus /\ ~onlineStatus'

C27_CameOnline == ~onlineStatus /\ onlineStatus'

\* a connectivity-restored event with a non-empty queue sets a timer that calls
\* processSyncQueue
C27_OnlineTriggersDrain ==
    [][C27_CameOnline /\ Len(syncQueue) > 0 => Len(drainTimers') > Len(drainTimers)]_vars

C27_OfflineNothingScheduled ==
    /\ [](~onlineStatus => retryTimeout = <<>>)
    /\ C27_OnlineTriggersDrain

\* the halves that hold: the connectivity-lost event itself leaves no retry timer, and no
\* drain starts while the client is offline
C27_OfflineEventCancels == [][C27_WentOffline => retryTimeout' = <<>>]_vars

C27_NoDrainStartsOffline ==
    [][~onlineStatus /\ ~onlineStatus' => Len(drains') <= Len(drains)]_vars

\* a queue was waiting when the client came back online
C27_QueueWaitedOffline ==
    /\ onlineStatus
    /\ syncBudget.events = MaxLiveEvents
    /\ Len(syncQueue) > 0
    /\ drainTimers # <<>>

(***************************************************************************)
(* C28: validateLeaderboardEntry rejects (returns null for) every raw entry *)
(* that lacks an id, lacks a name, has a score that is not a non-negative   *)
(* number, has an empty name after sanitization, or has a score above       *)
(* 999,999,999; no such entry is ever returned as an accepted entry.        *)
(***************************************************************************)
C28_Lacks(v) == v.kind = "undefined" \/ (v.kind = "string" /\ v.chars = <<>>)

C28_NonNegativeNumber(v) == v.kind = "number" /\ v.twice >= 0

\* nothing but spaces: empty once sanitized
C28_Blank(v) == v.kind = "string" /\ \A i \in 1..Len(v.chars) : v.chars[i] = " "

C28_MustBeRejected(e) ==
    \/ e.kind # "object"
    \/ C28_Lacks(e.id)
    \/ C28_Lacks(e.name)
    \/ ~C28_NonNegativeNumber(e.score)
    \/ C28_Blank(e.name)
    \/ e.score.kind = "number" /\ e.score.twice > 2 * 999999999

C28_InvalidRejected == validation.done /\ C28_MustBeRejected(rawEntry) => ~validation.accepted

\* the part that holds: an entry without id or name, with a score that is not of type
\* number, with a blank id or name, or with a score of 1,000,000,000 or more is rejected,
\* and an accepted entry carries a whole score in 0..999,999,999 or NaN
C28_RejectedAsCoded ==
    validation.done =>
        /\ \/ rawEntry.kind # "object"
           \/ C28_Lacks(rawEntry.id) \/ C28_Blank(rawEntry.id)
           \/ C28_Lacks(rawEntry.name) \/ C28_Blank(rawEntry.name)
           \/ rawEntry.score.kind \in {"undefined", "string"}
           \/ rawEntry.score.kind = "number" /\ rawEntry.score.twice >= 2 * 1000000000
           => ~validation.accepted
        /\ validation.accepted =>
              \/ validation.entry.score.kind = "NaN"
              \/ /\ validation.entry.score.twice % 2 = 0
                 /\ validation.entry.score.twice \in 0..(2 * 999999999)

\* an entry with id, name and a negative score has been validated
C28_NegativeScoreValidated ==
    /\ validation.done
    /\ rawEntry.kind = "object"
    /\ ~C28_Lacks(rawEntry.id) /\ ~C28_Blank(rawEntry.id)
    /\ ~C28_Lacks(rawEntry.name) /\ ~C28_Blank(rawEntry.name)
    /\ rawEntry.score.kind = "number"
    /\ rawEntry.score.twice < 0

(***************************************************************************)
(* C29: a player's own slap never changes that player's own health or alive *)
(* flag: a slap whose targetId is the attacker's own id resolves no hit and *)
(* awards the attacker no hit or kill bonus.                                *)
(***************************************************************************)
C29_Slapped(c) == c \in DOMAIN players /\ Slap(c)

C29_SameHealthAndAlive(c) ==
    /\ players'[c].health = players[c].health
    /\ players'[c].alive = players[c].alive

C29_OwnSlapSparesAttacker ==
    [][\A c \in ConnIds :
          C29_Slapped(c) =>
              /\ C29_SameHealthAndAlive(c)
              /\ lastSlap'.target = c =>
                    /\ players'[c].score <= players[c].score + 10
                    /\ hitLog' = hitLog]_vars

\* what holds: a slap aimed at another player, or at nobody, leaves the attacker's health
\* and alive flag as they were
C29_OtherTargetsSpareAttacker ==
    [][\A c \in ConnIds :
          C29_Slapped(c) /\ lastSlap'.target # c => C29_SameHealthAndAlive(c)]_vars

\* a player has slapped itself to death
C29_SelfKillReached ==
    /\ lastSlap.by \in DOMAIN players
    /\ lastSlap.target = lastSlap.by
    /\ ~players[lastSlap.by].alive
    /\ players[lastSlap.by].health <= 0

(***************************************************************************)
(* C30: each last-player-standing episode causes exactly one reset: once a  *)
(* reset has restored the roster, no further gameReset fires (and no        *)
(* player's score is zeroed again) until a later regeneration tick again    *)
(* finds exactly one player alive with more than one connected.             *)
(***************************************************************************)
\* the step is a reset: a pending reset is gone
C30_ResetStep == Len(resetTimers') < Len(resetTimers)

C30_OneResetPerEpisode == [][C30_ResetStep => episode]_vars

\* what holds: a reset runs only for a timer that a tick set on finding one player left,
\* three ticks ahead, so never before such a tick; and every such tick sets one
C30_TickFoundOneLeft ==
    /\ arenaTicks' = arenaTicks + 1
    /\ Cardinality({i \in DOMAIN players : players[i].alive}) = 1
    /\ Cardinality(DOMAIN players) > 1

C30_OneTimerPerTick ==
    [][/\ C30_TickFoundOneLeft => Len(resetTimers') = Len(resetTimers) + 1
       /\ Len(resetTimers') > Len(resetTimers) => C30_TickFoundOneLeft]_vars

\* a reset has restored the roster and another is still pending, while nobody has
\* slapped since and no tick has found one player left
C30_ResetStillPending ==
    /\ ~episode
    /\ arenaTicks = MaxArenaTicks
    /\ arenaSlaps = 0
    /\ resetTimers # <<>>
    /\ \A i \in DOMAIN players : players[i].alive /\ players[i].score = 0

====
